---- MODULE Spec2Model ----
(***************************************************************************)
(* Model of the multi-vector detection and arbitration engine:             *)
(*   backend/attack_detectors.py   the five sliding-window detectors and   *)
(*                                 ComprehensiveAttackDetector             *)
(*   backend/prediction_service.py predict(): the arbitration between the  *)
(*                                 rule-based verdict and the classifier   *)
(*                                                                         *)
(* Time is counted in ticks, TPS ticks to the second; a datetime is the    *)
(* tick it falls on.  Python floats are modelled by exact rationals        *)
(* [n, d] in lowest terms.  An optional value (None) is the empty          *)
(* sequence, a present value v is <<v>>.                                   *)
(***************************************************************************)
EXTENDS Integers, Sequences, FiniteSets, TLC

(* ------------------------------ bounds -------------------------------- *)

\* ticks per second (the resolution of the modelled clock)
TPS == 3

\* number of recording calls (add_packet, analyze_packet, predict) in a run
MaxCalls == 4
\* the calls served in a run of the prediction service
MaxRequests == 2
\* the recording calls in a run of the detectors queried one by one
MaxOps == 2
\* the single port-scan events recorded after a run of traffic
MaxAdds == 1
\* the add_packet calls started by the concurrent request threads
MaxThreadAdds == 2

(* ------------------------- program constants -------------------------- *)

PortScanWindow == 60
DoSWindow == 60
R2LWindow == 300
U2RWindow == 300
BruteForceWindow == 300
MaxPacketSize == 65535
\* a port limit twice as wide as the range of ports
MaxPort_Wide == 2 * 65535
MaxPort == 65535

(* ----------------------------- rationals ------------------------------ *)

RECURSIVE GCD(_, _)
GCD(a, b) == IF b = 0 THEN a ELSE GCD(b, a % b)

Abs(x) == IF x < 0 THEN 0 - x ELSE x

\* the rational n/d (d # 0) in lowest terms with a positive denominator
Q(n, d) ==
  LET s == IF d < 0 THEN 0 - 1 ELSE 1
      g == GCD(Abs(n), Abs(d))
  IN  [n |-> (s * n) \div g, d |-> (s * d) \div g]

QInt(k) == [n |-> k, d |-> 1]
Zero == QInt(0)
One == QInt(1)

QAdd(a, b) == Q(a.n * b.d + b.n * a.d, a.d * b.d)
QMul(a, b) == Q(a.n * b.n, a.d * b.d)
QDiv(a, b) == Q(a.n * b.d, a.d * b.n)
QLt(a, b) == a.n * b.d < b.n * a.d
QLe(a, b) == a.n * b.d <= b.n * a.d
QGt(a, b) == QLt(b, a)
QGe(a, b) == QLe(b, a)
QMin(a, b) == IF QLt(b, a) THEN b ELSE a
QMax(a, b) == IF QLt(a, b) THEN b ELSE a

(* --------------------------- shared helpers --------------------------- *)

\* defaultdict.__getitem__: reading a missing key inserts the default entry
DefaultDictGet(tracking, key, new) ==
  IF key \in DOMAIN tracking THEN tracking ELSE (key :> new) @@ tracking

\* [ts for ts in xs if ts > cutoff_time]
Recent(xs, cutoff_time) == SelectSeq(xs, LAMBDA ts : ts > cutoff_time)

\* now - timedelta(seconds=window), in ticks
Cutoff(now, window) == now - window * TPS

\* (last - first).total_seconds() or 1
TimeSpan(first, last) == IF last - first = 0 THEN One ELSE Q(last - first, TPS)

\* the value of an expression bound to a name once: the element of {e(x) : x \in {v}}
Only(S) == CHOOSE x \in S : TRUE

NoTracking == [s \in {} |-> 0]

(* -------------------------- PortScanDetector -------------------------- *)

PortScanNew ==
  [ports |-> {}, timestamps |-> <<>>, unique_dest_ips |-> {},
   total_packets |-> 0, sequential_ports |-> <<>>]

PortScanDefaultFeatures ==
  [unique_ports |-> 0, port_scan_rate |-> Zero, unique_dest_ips |-> 0,
   packets_per_second |-> Zero, is_port_scan |-> FALSE,
   port_scan_score |-> Zero, sequential_score |-> Zero]

\* dest_port validation of add_packet: out of 1..65535 becomes None
ValidPort(dest_port) ==
  IF dest_port # <<>> /\ (dest_port[1] < 1 \/ dest_port[1] > MaxPort)
  THEN <<>> ELSE dest_port

\* add_packet appending the timestamp to the list of every tracked source
PortScanAdd_AllSources(tracking, source_ip, dest_ip, dest_port, now) ==
  IF source_ip = "" \/ dest_ip = "" THEN tracking
  ELSE
    LET cutoff == Cutoff(now, PortScanWindow)
        t1     == DefaultDictGet(tracking, source_ip, PortScanNew)
    IN  [s \in DOMAIN t1 |->
           [t1[s] EXCEPT !.timestamps = Append(Recent(@, cutoff), now)]]

\* PortScanDetector.add_packet: the tracking map after the call
PortScanAdd(tracking, source_ip, dest_ip, dest_port, now) ==
  IF source_ip = "" \/ dest_ip = "" THEN tracking
  ELSE
    LET port   == ValidPort(dest_port)
        cutoff == Cutoff(now, PortScanWindow)
        t1     == DefaultDictGet(tracking, source_ip, PortScanNew)
        data   == t1[source_ip]
        d1     == [data EXCEPT
                     !.timestamps = Append(Recent(data.timestamps, cutoff), now),
                     !.unique_dest_ips = data.unique_dest_ips \cup {dest_ip},
                     !.total_packets = data.total_packets + 1]
        d2     == IF port # <<>> /\ port[1] # 0
                  THEN [d1 EXCEPT
                          !.ports = d1.ports \cup {port[1]},
                          !.sequential_ports =
                             SelectSeq(Append(d1.sequential_ports, <<port[1], now>>),
                                       LAMBDA e : e[2] > cutoff)]
                  ELSE d1
    IN  [t1 EXCEPT ![source_ip] = d2]

\* PortScanDetector._check_sequential_ports
CheckSequentialPorts(port_timestamps) ==
  IF Len(port_timestamps) < 5 THEN Zero
  ELSE
    LET ports == SortSeq([i \in 1..Len(port_timestamps) |-> port_timestamps[i][1]],
                         LAMBDA a, b : a < b)
        total_sequences  == Len(ports) - 1
        sequential_count ==
          Cardinality({i \in 1..(Len(ports) - 1) : ports[i + 1] - ports[i] = 1})
    IN  IF total_sequences > 0 THEN Q(sequential_count, total_sequences) ELSE Zero

\* the sequential bonus setting the flag without adding to the score
PortScanScore_FlagOnly(unique_ports, packets_per_second, sequential_score) ==
  LET base ==
        IF unique_ports >= 10 /\ QGt(packets_per_second, QInt(5))
        THEN LET s == QMin(One, QMul(Q(unique_ports, 100),
                                     QDiv(packets_per_second, QInt(50))))
             IN  [score |-> s, active |-> QGt(s, Q(3, 10))]
        ELSE IF unique_ports >= 5 /\ QGt(packets_per_second, QInt(10))
        THEN LET s == QMin(One, QMul(Q(unique_ports, 50),
                                     QDiv(packets_per_second, QInt(100))))
             IN  [score |-> s, active |-> QGt(s, Q(2, 10))]
        ELSE IF unique_ports >= 20
        THEN LET s == QMin(One, Q(unique_ports, 200))
             IN  [score |-> s, active |-> QGt(s, Q(4, 10))]
        ELSE [score |-> Zero, active |-> FALSE]
  IN  IF QGt(sequential_score, Q(1, 2))
      THEN [score |-> base.score, active |-> TRUE]
      ELSE base

\* the threshold rules and the sequential bonus of PortScanDetector.get_features
PortScanScore(unique_ports, packets_per_second, sequential_score) ==
  LET base ==
        IF unique_ports >= 10 /\ QGt(packets_per_second, QInt(5))
        THEN LET s == QMin(One, QMul(Q(unique_ports, 100),
                                     QDiv(packets_per_second, QInt(50))))
             IN  [score |-> s, active |-> QGt(s, Q(3, 10))]
        ELSE IF unique_ports >= 5 /\ QGt(packets_per_second, QInt(10))
        THEN LET s == QMin(One, QMul(Q(unique_ports, 50),
                                     QDiv(packets_per_second, QInt(100))))
             IN  [score |-> s, active |-> QGt(s, Q(2, 10))]
        ELSE IF unique_ports >= 20
        THEN LET s == QMin(One, Q(unique_ports, 200))
             IN  [score |-> s, active |-> QGt(s, Q(4, 10))]
        ELSE [score |-> Zero, active |-> FALSE]
  IN  IF QGt(sequential_score, Q(1, 2))
      THEN [score |-> QMin(One, QAdd(base.score, Q(2, 10))), active |-> TRUE]
      ELSE base

\* lines 104-151 of PortScanDetector.get_features: the features of a tracked
\* source
PortScanFeaturesOf(tracking, source_ip, now) ==
  LET data   == tracking[source_ip]
      cutoff == Cutoff(now, PortScanWindow)
      recent_timestamps == Recent(data.timestamps, cutoff)
  IN  IF recent_timestamps = <<>>
      THEN [tracking |-> tracking, features |-> PortScanDefaultFeatures]
      ELSE
        LET unique_ports  == Cardinality(data.ports)
            total_packets == Len(recent_timestamps)
            time_span == TimeSpan(recent_timestamps[1],
                                  recent_timestamps[Len(recent_timestamps)])
            packets_per_second == QDiv(QInt(total_packets), time_span)
            sequential_score == CheckSequentialPorts(data.sequential_ports)
            r == PortScanScore(unique_ports, packets_per_second, sequential_score)
        IN  [tracking |-> tracking,
             features |->
               [unique_ports |-> unique_ports,
                port_scan_rate |-> QDiv(QInt(unique_ports), time_span),
                unique_dest_ips |-> Cardinality(data.unique_dest_ips),
                packets_per_second |-> packets_per_second,
                is_port_scan |-> r.active,
                port_scan_score |-> r.score,
                sequential_score |-> sequential_score]]

\* the same without the membership test of line 101: the defaultdict inserts
\* an entry for a source it does not know
PortScanGetFeatures_NoGuard(tracking, source_ip, now) ==
  PortScanFeaturesOf(DefaultDictGet(tracking, source_ip, PortScanNew), source_ip, now)

\* a query that drops the entry of a source whose timestamps have all expired
PortScanGetFeatures_Evict(tracking, source_ip, now) ==
  IF source_ip \notin DOMAIN tracking
  THEN [tracking |-> tracking, features |-> PortScanDefaultFeatures]
  ELSE IF Recent(tracking[source_ip].timestamps, Cutoff(now, PortScanWindow)) = <<>>
  THEN [tracking |-> [s \in DOMAIN tracking \ {source_ip} |-> tracking[s]],
        features |-> PortScanDefaultFeatures]
  ELSE PortScanFeaturesOf(tracking, source_ip, now)

\* PortScanDetector.get_features: the tracking map after the call and the
\* features returned
PortScanGetFeatures(tracking, source_ip, now) ==
  IF source_ip \notin DOMAIN tracking
  THEN [tracking |-> tracking, features |-> PortScanDefaultFeatures]
  ELSE PortScanFeaturesOf(DefaultDictGet(tracking, source_ip, PortScanNew),
                          source_ip, now)

(* ----------------------------- DoSDetector ---------------------------- *)

DoSNew ==
  [packets |-> <<>>, bytes |-> <<>>, dest_ips |-> {},
   syn_packets |-> 0, failed_connections |-> 0]

DoSDefaultFeatures ==
  [packets_per_second |-> Zero, bytes_per_second |-> Zero, packet_count |-> 0,
   unique_dest_ips |-> 0, syn_packets |-> 0, is_dos |-> FALSE,
   dos_score |-> Zero, avg_packet_size |-> Zero]

\* max(0, min(packet_size, 65535))
CapSize(packet_size) ==
  IF packet_size < 0 THEN 0
  ELSE IF packet_size > MaxPacketSize THEN MaxPacketSize ELSE packet_size

\* DoSDetector.add_packet
DoSAdd(tracking, source_ip, dest_ip, packet_size, is_syn, connection_failed, now) ==
  IF source_ip = "" \/ dest_ip = "" THEN tracking
  ELSE
    LET size   == CapSize(packet_size)
        cutoff == Cutoff(now, DoSWindow)
        t1     == DefaultDictGet(tracking, source_ip, DoSNew)
        data   == t1[source_ip]
        live(xs) == SelectSeq(xs, LAMBDA e : e[1] > cutoff)
    IN  [t1 EXCEPT ![source_ip] =
           [data EXCEPT
              !.packets = Append(live(data.packets), <<now, 1>>),
              !.bytes = Append(live(data.bytes), <<now, size>>),
              !.dest_ips = data.dest_ips \cup {dest_ip},
              !.syn_packets = IF is_syn THEN data.syn_packets + 1
                              ELSE data.syn_packets,
              !.failed_connections = IF connection_failed
                                     THEN data.failed_connections + 1
                                     ELSE data.failed_connections]]

\* the sizes of the entries lo..hi of a list of (timestamp, size) pairs, summed
RECURSIVE SumRange(_, _, _)
SumRange(xs, lo, hi) ==
  IF lo > hi THEN 0
  ELSE IF lo = hi THEN xs[lo][2]
  ELSE SumRange(xs, lo, (lo + hi) \div 2) + SumRange(xs, (lo + hi) \div 2 + 1, hi)

SumSizes(xs) == SumRange(xs, 1, Len(xs))

\* lines 268-279: the three rate rules of DoSDetector.get_features
DoSBase(packets_per_second, dest_ips, syn_packets) ==
  IF QGt(packets_per_second, QInt(100))
  THEN LET s == QMin(One, QDiv(packets_per_second, QInt(1000)))
       IN  [score |-> s, active |-> QGt(s, Q(5, 10))]
  ELSE IF QGt(packets_per_second, QInt(50)) /\ dest_ips <= 3
  THEN LET s == QMin(One, QMul(QDiv(packets_per_second, QInt(200)),
                         Q(3, dest_ips)))
       IN  [score |-> s, active |-> QGt(s, Q(4, 10))]
  ELSE IF syn_packets > 50 /\ QGt(packets_per_second, QInt(20))
  THEN LET s == QMin(One, QMul(Q(syn_packets, 100),
                         QDiv(packets_per_second, QInt(50))))
       IN  [score |-> s, active |-> QGt(s, Q(5, 10))]
  ELSE [score |-> Zero, active |-> FALSE]

\* the small-packet bonus granted whatever the rate
DoSScore_NoRate(packets_per_second, dest_ips, syn_packets, avg_packet_size) ==
  LET base == DoSBase(packets_per_second, dest_ips, syn_packets)
  IN  IF QLt(avg_packet_size, QInt(100))
      THEN [score |-> QMin(One, QAdd(base.score, Q(3, 10))), active |-> TRUE]
      ELSE base

\* lines 264-284: the rate rules and the small-packet bonus
DoSScore(packets_per_second, dest_ips, syn_packets, avg_packet_size) ==
  LET base == DoSBase(packets_per_second, dest_ips, syn_packets)
  IN  IF QLt(avg_packet_size, QInt(100)) /\ QGt(packets_per_second, QInt(30))
      THEN [score |-> QMin(One, QAdd(base.score, Q(3, 10))), active |-> TRUE]
      ELSE base

\* DoSDetector.get_features
DoSGetFeatures(tracking, source_ip, now) ==
  IF source_ip \notin DOMAIN tracking
  THEN [tracking |-> tracking, features |-> DoSDefaultFeatures]
  ELSE
    LET t1     == DefaultDictGet(tracking, source_ip, DoSNew)
        data   == t1[source_ip]
        cutoff == Cutoff(now, DoSWindow)
        recent_packets == SelectSeq(data.packets, LAMBDA e : e[1] > cutoff)
        recent_bytes   == SelectSeq(data.bytes, LAMBDA e : e[1] > cutoff)
    IN  IF recent_packets = <<>>
        THEN [tracking |-> t1, features |-> DoSDefaultFeatures]
        ELSE
          LET time_span == TimeSpan(recent_packets[1][1],
                                    recent_packets[Len(recent_packets)][1])
              packet_count == Len(recent_packets)
              total_bytes  == SumSizes(recent_bytes)
              packets_per_second == QDiv(QInt(packet_count), time_span)
              avg_packet_size == Q(total_bytes, packet_count)
              r == DoSScore(packets_per_second, Cardinality(data.dest_ips),
                            data.syn_packets, avg_packet_size)
          IN  [tracking |-> t1,
               features |->
                 [packets_per_second |-> packets_per_second,
                  bytes_per_second |-> QDiv(QInt(total_bytes), time_span),
                  packet_count |-> packet_count,
                  unique_dest_ips |-> Cardinality(data.dest_ips),
                  syn_packets |-> data.syn_packets,
                  is_dos |-> r.active,
                  dos_score |-> r.score,
                  avg_packet_size |-> avg_packet_size]]

(* ----------------------------- R2LDetector ---------------------------- *)

R2LNew ==
  [failed_logins |-> <<>>, privilege_escalation |-> <<>>,
   suspicious_commands |-> <<>>, dest_ips |-> {}, access_patterns |-> <<>>]

R2LDefaultFeatures ==
  [failed_logins |-> 0, privilege_attempts |-> 0, suspicious_commands |-> 0,
   unique_dest_ips |-> 0, is_r2l |-> FALSE, r2l_score |-> Zero]

\* R2LDetector.add_packet
R2LAdd(tracking, source_ip, dest_ip, is_failed_login, is_privilege_attempt, suspicious_command, now) ==
  LET cutoff == Cutoff(now, R2LWindow)
      t1     == DefaultDictGet(tracking, source_ip, R2LNew)
      data   == t1[source_ip]
      put(xs, flag) == IF flag THEN Append(Recent(xs, cutoff), now)
                       ELSE Recent(xs, cutoff)
  IN  [t1 EXCEPT ![source_ip] =
         [data EXCEPT
            !.failed_logins = put(data.failed_logins, is_failed_login),
            !.privilege_escalation = put(data.privilege_escalation,
                                         is_privilege_attempt),
            !.suspicious_commands = put(data.suspicious_commands,
                                        suspicious_command),
            !.dest_ips = data.dest_ips \cup {dest_ip}]]

\* the priority cascade of R2LDetector.get_features
R2LScore(failed_logins, privilege_attempts, suspicious_commands) ==
  IF failed_logins >= 5
  THEN LET s == QMin(One, Q(failed_logins, 20))
       IN  [score |-> s, active |-> QGt(s, Q(4, 10))]
  ELSE IF privilege_attempts >= 3
  THEN [score |-> QMin(One, Q(privilege_attempts, 10)), active |-> TRUE]
  ELSE IF suspicious_commands >= 5
  THEN LET s == QMin(One, Q(suspicious_commands, 15))
       IN  [score |-> s, active |-> QGt(s, Q(3, 10))]
  ELSE [score |-> Zero, active |-> FALSE]

\* R2LDetector.get_features (reads no clock)
R2LGetFeatures(tracking, source_ip, now) ==
  IF source_ip \notin DOMAIN tracking
  THEN [tracking |-> tracking, features |-> R2LDefaultFeatures]
  ELSE
    LET t1   == DefaultDictGet(tracking, source_ip, R2LNew)
        data == t1[source_ip]
        r    == R2LScore(Len(data.failed_logins), Len(data.privilege_escalation),
                         Len(data.suspicious_commands))
    IN  [tracking |-> t1,
         features |->
           [failed_logins |-> Len(data.failed_logins),
            privilege_attempts |-> Len(data.privilege_escalation),
            suspicious_commands |-> Len(data.suspicious_commands),
            unique_dest_ips |-> Cardinality(data.dest_ips),
            is_r2l |-> r.active,
            r2l_score |-> r.score]]

(* ----------------------------- U2RDetector ---------------------------- *)

U2RNew ==
  [root_commands |-> <<>>, setuid_attempts |-> <<>>,
   buffer_overflow_patterns |-> <<>>, suspicious_file_access |-> <<>>]

U2RDefaultFeatures ==
  [root_commands |-> 0, setuid_attempts |-> 0, buffer_overflow_patterns |-> 0,
   suspicious_file_access |-> 0, is_u2r |-> FALSE, u2r_score |-> Zero]

\* U2RDetector.add_packet
U2RAdd(tracking, source_ip, is_root_command, is_setuid_attempt, is_buffer_overflow, suspicious_file, now) ==
  LET cutoff == Cutoff(now, U2RWindow)
      t1     == DefaultDictGet(tracking, source_ip, U2RNew)
      data   == t1[source_ip]
      put(xs, flag) == IF flag THEN Append(Recent(xs, cutoff), now)
                       ELSE Recent(xs, cutoff)
  IN  [t1 EXCEPT ![source_ip] =
         [data EXCEPT
            !.root_commands = put(data.root_commands, is_root_command),
            !.setuid_attempts = put(data.setuid_attempts, is_setuid_attempt),
            !.buffer_overflow_patterns = put(data.buffer_overflow_patterns,
                                             is_buffer_overflow),
            !.suspicious_file_access = put(data.suspicious_file_access,
                                           suspicious_file)]]

\* the priority cascade of U2RDetector.get_features
U2RScore(root_commands, setuid_attempts, buffer_overflow, suspicious_files) ==
  IF root_commands >= 3
  THEN [score |-> QMin(One, Q(root_commands, 10)), active |-> TRUE]
  ELSE IF setuid_attempts >= 2
  THEN [score |-> QMin(One, Q(setuid_attempts, 5)), active |-> TRUE]
  ELSE IF buffer_overflow >= 1
  THEN [score |-> Q(8, 10), active |-> TRUE]
  ELSE IF suspicious_files >= 5
  THEN LET s == QMin(One, Q(suspicious_files, 15))
       IN  [score |-> s, active |-> QGt(s, Q(3, 10))]
  ELSE [score |-> Zero, active |-> FALSE]

\* lines 441-472 of U2RDetector.get_features: the features of a tracked source
U2RFeaturesOf(tracking, source_ip) ==
  LET data == tracking[source_ip]
      r    == U2RScore(Len(data.root_commands), Len(data.setuid_attempts),
                       Len(data.buffer_overflow_patterns),
                       Len(data.suspicious_file_access))
  IN  [root_commands |-> Len(data.root_commands),
       setuid_attempts |-> Len(data.setuid_attempts),
       buffer_overflow_patterns |-> Len(data.buffer_overflow_patterns),
       suspicious_file_access |-> Len(data.suspicious_file_access),
       is_u2r |-> r.active,
       u2r_score |-> r.score]

\* a query that reports the buffer-overflow indicators and resets them
U2RGetFeatures_Drain(tracking, source_ip, now) ==
  IF source_ip \notin DOMAIN tracking
  THEN [tracking |-> tracking, features |-> U2RDefaultFeatures]
  ELSE [tracking |-> [tracking EXCEPT ![source_ip].buffer_overflow_patterns = <<>>],
        features |-> U2RFeaturesOf(tracking, source_ip)]

\* U2RDetector.get_features (reads no clock)
U2RGetFeatures(tracking, source_ip, now) ==
  IF source_ip \notin DOMAIN tracking
  THEN [tracking |-> tracking, features |-> U2RDefaultFeatures]
  ELSE LET t1 == DefaultDictGet(tracking, source_ip, U2RNew)
       IN  [tracking |-> t1, features |-> U2RFeaturesOf(t1, source_ip)]

(* -------------------------- BruteForceDetector ------------------------ *)

BruteForceNew ==
  [login_attempts |-> <<>>, failed_attempts |-> <<>>,
   successful_after_failures |-> <<>>, target_ports |-> {},
   username_guessing |-> <<>>]

BruteForceDefaultFeatures ==
  [login_attempts |-> 0, failed_attempts |-> 0, success_after_failures |-> 0,
   target_ports |-> 0, is_brute_force |-> FALSE, brute_force_score |-> Zero]

\* BruteForceDetector.add_packet
BruteForceAdd(tracking, source_ip, dest_port, is_login_attempt, is_failed, is_success_after_failures, now) ==
  IF source_ip = "" THEN tracking
  ELSE
    LET port   == ValidPort(dest_port)
        cutoff == Cutoff(now, BruteForceWindow)
        t1     == DefaultDictGet(tracking, source_ip, BruteForceNew)
        data   == t1[source_ip]
        put(xs, flag) == IF flag THEN Append(Recent(xs, cutoff), now)
                         ELSE Recent(xs, cutoff)
    IN  [t1 EXCEPT ![source_ip] =
           [data EXCEPT
              !.login_attempts = put(data.login_attempts, is_login_attempt),
              !.failed_attempts = put(data.failed_attempts,
                                      is_login_attempt /\ is_failed),
              !.successful_after_failures =
                 put(data.successful_after_failures,
                     is_login_attempt /\ is_success_after_failures),
              !.target_ports = IF port # <<>> /\ port[1] # 0
                               THEN data.target_ports \cup {port[1]}
                               ELSE data.target_ports]]

\* the same rules with the first one active only above 0.3, as the last is
BruteForceScore_Thresholded(login_attempts, failed_attempts, success_after_failures) ==
  IF failed_attempts >= 10
  THEN LET s == QMin(One, Q(failed_attempts, 50))
       IN  [score |-> s, active |-> QGt(s, Q(3, 10))]
  ELSE IF failed_attempts >= 5 /\ login_attempts >= 8
  THEN LET s == QMin(One, QMul(Q(failed_attempts, login_attempts),
                               Q(failed_attempts, 10)))
       IN  [score |-> s, active |-> QGt(s, Q(4, 10))]
  ELSE IF success_after_failures >= 1 /\ failed_attempts >= 3
  THEN [score |-> Q(9, 10), active |-> TRUE]
  ELSE IF login_attempts >= 20
  THEN LET s == QMin(One, Q(login_attempts, 100))
       IN  [score |-> s, active |-> QGt(s, Q(3, 10))]
  ELSE [score |-> Zero, active |-> FALSE]

\* the same rules with the compromised-credential rule tried first
BruteForceScore_CompromiseFirst(login_attempts, failed_attempts, success_after_failures) ==
  IF success_after_failures >= 1 /\ failed_attempts >= 3
  THEN [score |-> Q(9, 10), active |-> TRUE]
  ELSE IF failed_attempts >= 10
  THEN [score |-> QMin(One, Q(failed_attempts, 50)), active |-> TRUE]
  ELSE IF failed_attempts >= 5 /\ login_attempts >= 8
  THEN LET s == QMin(One, QMul(Q(failed_attempts, login_attempts),
                               Q(failed_attempts, 10)))
       IN  [score |-> s, active |-> QGt(s, Q(4, 10))]
  ELSE IF login_attempts >= 20
  THEN LET s == QMin(One, Q(login_attempts, 100))
       IN  [score |-> s, active |-> QGt(s, Q(3, 10))]
  ELSE [score |-> Zero, active |-> FALSE]

\* the priority cascade of BruteForceDetector.get_features
BruteForceScore(login_attempts, failed_attempts, success_after_failures) ==
  IF failed_attempts >= 10
  THEN [score |-> QMin(One, Q(failed_attempts, 50)), active |-> TRUE]
  ELSE IF failed_attempts >= 5 /\ login_attempts >= 8
  THEN LET failure_rate == Q(failed_attempts, login_attempts)
           s == QMin(One, QMul(failure_rate, Q(failed_attempts, 10)))
       IN  [score |-> s, active |-> QGt(s, Q(4, 10))]
  ELSE IF success_after_failures >= 1 /\ failed_attempts >= 3
  THEN [score |-> Q(9, 10), active |-> TRUE]
  ELSE IF login_attempts >= 20
  THEN LET s == QMin(One, Q(login_attempts, 100))
       IN  [score |-> s, active |-> QGt(s, Q(3, 10))]
  ELSE [score |-> Zero, active |-> FALSE]

\* BruteForceDetector.get_features (reads no clock)
BruteForceGetFeatures(tracking, source_ip, now) ==
  IF source_ip \notin DOMAIN tracking
  THEN [tracking |-> tracking, features |-> BruteForceDefaultFeatures]
  ELSE
    LET t1   == DefaultDictGet(tracking, source_ip, BruteForceNew)
        data == t1[source_ip]
        r    == BruteForceScore(Len(data.login_attempts),
                                Len(data.failed_attempts),
                                Len(data.successful_after_failures))
    IN  [tracking |-> t1,
         features |->
           [login_attempts |-> Len(data.login_attempts),
            failed_attempts |-> Len(data.failed_attempts),
            success_after_failures |-> Len(data.successful_after_failures),
            target_ports |-> Cardinality(data.target_ports),
            is_brute_force |-> r.active,
            brute_force_score |-> r.score]]

(* --------------------- ComprehensiveAttackDetector -------------------- *)

\* A packet is [start_ip, end_ip, start_bytes, description].  start_bytes is
\* [k |-> "int", v |-> n] or, for a non-numeric string, [k |-> "str", v |-> 0].
\* description is [arrow, port, text]: whether it holds "->", the token after
\* the arrow ([k |-> "int", v |-> n], [k |-> "word", ...] for a non-numeric
\* token, [k |-> "none", ...] for no token) and its remaining text in lower case.

\* str.strip() on the addresses drawn here
Strip(s) == IF s = " " THEN "" ELSE s

\* the order of the keys of attack_scores
Categories == <<"probe", "dos", "r2l", "u2r", "brute_force", "normal">>

LoginPorts == {22, 23, 80, 443, 3306, 5432, 3389, 5900}

\* 'failed' in description.lower() or 'denied' in ... or 'refused' in ...
IsFailedText(text) == text \in {"failed", "denied", "refused"}

\* lines 640-649: the destination port from the description
ParsePort(description) ==
  IF ~description.arrow THEN <<>>
  ELSE IF description.port.k # "int" THEN <<>>
  ELSE LET p == description.port.v
       IN  <<IF p < 1 THEN 1 ELSE IF p > MaxPort THEN MaxPort ELSE p>>

ZeroScores == [c \in {Categories[i] : i \in 1..Len(Categories)} |-> Zero]

\* ComprehensiveAttackDetector._default_detection_result
DefaultDetectionResult ==
  [attack_type |-> "normal", is_malicious |-> FALSE, confidence |-> Zero,
   port_scan_features |-> PortScanDefaultFeatures,
   dos_features |-> DoSDefaultFeatures,
   r2l_features |-> R2LDefaultFeatures,
   u2r_features |-> U2RDefaultFeatures,
   brute_force_features |-> BruteForceDefaultFeatures,
   all_scores |-> ZeroScores]

\* the first key of the dict and its score, whatever the other scores
MaxAttack_First(attack_scores) == <<Categories[1], attack_scores[Categories[1]]>>

\* max(attack_scores.items(), key=lambda x: x[1]): the first key, in the order
\* of the dict, with the greatest score
MaxAttack(attack_scores) ==
  LET best == CHOOSE i \in 1..Len(Categories) :
                /\ \A j \in 1..Len(Categories) :
                      QLe(attack_scores[Categories[j]], attack_scores[Categories[i]])
                /\ \A j \in 1..(i - 1) :
                      QLt(attack_scores[Categories[j]], attack_scores[Categories[i]])
  IN  <<Categories[best], attack_scores[Categories[best]]>>

\* max(0.0, min(1.0, x))
Clamp01(x) == QMax(Zero, QMin(One, x))

\* the verdict's type left as the score threshold gave it
RelabelUnknown_Skip(is_malicious, attack_type) == attack_type

\* lines 753-755: malicious without a type above the threshold is unknown_attack
RelabelUnknown(is_malicious, attack_type) ==
  IF is_malicious /\ attack_type = "normal" THEN "unknown_attack" ELSE attack_type

\* a fixed confidence of 0.5 for every verdict of unknown type
UnknownConfidence_Half(attack_scores) == Q(1, 2)

\* lines 756-760: the confidence of an unknown_attack verdict, the highest of
\* the scores above 0, or 0.5 when there is none
UnknownConfidence(attack_scores) ==
  LET non_zero_scores == {x \in {attack_scores[c] : c \in DOMAIN attack_scores} :
                            QGt(x, Zero)}
  IN  IF non_zero_scores = {} THEN Q(1, 2)
      ELSE Clamp01(CHOOSE x \in non_zero_scores :
                     \A y \in non_zero_scores : QLe(y, x))

\* the verdict with is_malicious taken from the five active flags alone
Verdict_FlagsOnly(ps, dos, r2l, u2r, bf) ==
  LET attack_scores ==
        [c \in DOMAIN ZeroScores |->
           CASE c = "probe" -> ps.port_scan_score
             [] c = "dos" -> dos.dos_score
             [] c = "r2l" -> r2l.r2l_score
             [] c = "u2r" -> u2r.u2r_score
             [] c = "brute_force" -> bf.brute_force_score
             [] OTHER -> Zero]
      max_attack   == MaxAttack(attack_scores)
      attack_type  == IF QGt(max_attack[2], Q(3, 10)) THEN max_attack[1]
                      ELSE "normal"
      is_malicious == \/ ps.is_port_scan \/ dos.is_dos \/ r2l.is_r2l
                      \/ u2r.is_u2r \/ bf.is_brute_force
  IN  [attack_type |-> RelabelUnknown(is_malicious, attack_type),
       is_malicious |-> is_malicious,
       confidence |->
         IF is_malicious /\ attack_type = "normal"
         THEN UnknownConfidence(attack_scores) ELSE Clamp01(max_attack[2]),
       port_scan_features |-> ps,
       dos_features |-> dos,
       r2l_features |-> r2l,
       u2r_features |-> u2r,
       brute_force_features |-> bf,
       all_scores |-> attack_scores]

\* lines 708-775: the verdict from the five feature records
Verdict(ps, dos, r2l, u2r, bf) ==
  LET attack_scores ==
        [c \in DOMAIN ZeroScores |->
           CASE c = "probe" -> ps.port_scan_score
             [] c = "dos" -> dos.dos_score
             [] c = "r2l" -> r2l.r2l_score
             [] c = "u2r" -> u2r.u2r_score
             [] c = "brute_force" -> bf.brute_force_score
             [] OTHER -> Zero]
      max_attack   == MaxAttack(attack_scores)
      attack_type  == IF QGt(max_attack[2], Q(3, 10)) THEN max_attack[1]
                      ELSE "normal"
      confidence   == Clamp01(max_attack[2])
      is_malicious == \/ ps.is_port_scan \/ dos.is_dos \/ r2l.is_r2l
                      \/ u2r.is_u2r \/ bf.is_brute_force
                      \/ attack_type # "normal"
      final_type   == RelabelUnknown(is_malicious, attack_type)
      unknown      == is_malicious /\ attack_type = "normal"
  IN  [attack_type |-> final_type,
       is_malicious |-> is_malicious,
       confidence |->
         IF unknown THEN UnknownConfidence(attack_scores) ELSE confidence,
       port_scan_features |-> ps,
       dos_features |-> dos,
       r2l_features |-> r2l,
       u2r_features |-> u2r,
       brute_force_features |-> bf,
       all_scores |-> attack_scores]

\* lines 765-775: the dict returned, with the maps the five get_features
\* calls of lines 677-706 left
AnalyzeResult(psq, dosq, r2lq, u2rq, bfq) ==
  [det |-> [ps |-> psq.tracking, dos |-> dosq.tracking, r2l |-> r2lq.tracking,
            u2r |-> u2rq.tracking, bf |-> bfq.tracking],
   result |-> Verdict(psq.features, dosq.features, r2lq.features,
                      u2rq.features, bfq.features),
   recorded |-> TRUE]

\* lines 651-706: the three add_packet calls at t_rec and the five
\* get_features calls at t_qry
AnalyzeRecorded(det, source_ip, dest_ip, packet_size, dest_port, is_failed, t_rec, t_qry) ==
  Only({ AnalyzeResult(psq, dosq, r2lq, u2rq, bfq) :
           psq \in {PortScanGetFeatures(
                      PortScanAdd(det.ps, source_ip, dest_ip, dest_port, t_rec),
                      source_ip, t_qry)},
           dosq \in {DoSGetFeatures(
                       DoSAdd(det.dos, source_ip, dest_ip, packet_size, FALSE,
                              FALSE, t_rec),
                       source_ip, t_qry)},
           r2lq \in {R2LGetFeatures(det.r2l, source_ip, t_qry)},
           u2rq \in {U2RGetFeatures(det.u2r, source_ip, t_qry)},
           bfq \in {BruteForceGetFeatures(
                      BruteForceAdd(det.bf, source_ip, dest_port,
                                    dest_port # <<>> /\ dest_port[1] # 0
                                      /\ dest_port[1] \in LoginPorts,
                                    is_failed, FALSE, t_rec),
                      source_ip, t_qry)} })

\* analyze_packet without the validation of the addresses (line 634)
AnalyzePacket_Unvalidated(det, packet, t_rec, t_qry) ==
  IF packet.start_bytes.k # "int"
  THEN [det |-> det, result |-> DefaultDetectionResult, recorded |-> FALSE]
  ELSE AnalyzeRecorded(det, Strip(packet.start_ip), Strip(packet.end_ip),
                       CapSize(packet.start_bytes.v),
                       ParsePort(packet.description),
                       IsFailedText(packet.description.text), t_rec, t_qry)

\* ComprehensiveAttackDetector.analyze_packet on the detectors' maps det =
\* [ps, dos, r2l, u2r, bf]; the three add_packet calls read the clock at
\* t_rec, the get_features calls at t_qry.  Yields the maps after the call,
\* the dict returned and whether the call reached the add_packet calls.
AnalyzePacket(det, packet, t_rec, t_qry) ==
  IF \/ Strip(packet.start_ip) \in {"", "0.0.0.0"}
     \/ Strip(packet.end_ip) \in {"", "0.0.0.0"}
  THEN [det |-> det, result |-> DefaultDetectionResult, recorded |-> FALSE]
  ELSE IF packet.start_bytes.k # "int"
  \* int() raises ValueError, caught by the outermost handler (line 776)
  THEN [det |-> det, result |-> DefaultDetectionResult, recorded |-> FALSE]
  ELSE AnalyzeRecorded(det, Strip(packet.start_ip), Strip(packet.end_ip),
                       CapSize(packet.start_bytes.v),
                       ParsePort(packet.description),
                       IsFailedText(packet.description.text), t_rec, t_qry)

(* ------------------------------ predict ------------------------------- *)

\* A classifier verdict is [binary_pred, multiclass_pred, binary_proba,
\* multiclass_proba]: the two models' predict() results, P(malicious) of the
\* binary model and the class probabilities of the multiclass model;
\* multiclass_proba = <<>> stands for predict_proba raising.

AttackTypeNames == <<"normal", "dos", "probe", "r2l", "u2r", "brute_force">>

NamedTypes == {AttackTypeNames[i] : i \in 1..Len(AttackTypeNames)}

RECURSIVE QSumOver(_, _)
QSumOver(f, keys) ==
  IF keys = {} THEN Zero
  ELSE LET k == CHOOSE x \in keys : TRUE
       IN  QAdd(f[k], QSumOver(f, keys \ {k}))

\* sum(attack_type_probs.values())
QSum(f) == QSumOver(f, DOMAIN f)

\* lines 527-551: defaults and sanitised numeric fields
Sanitize(packet) ==
  [packet EXCEPT
     !.start_bytes = IF packet.start_bytes.k = "int"
                     THEN [k |-> "int", v |-> CapSize(packet.start_bytes.v)]
                     ELSE [k |-> "int", v |-> 0]]

\* lines 609-637: labels and confidences without the ML models
RuleOnlyVerdict(detection) ==
  IF detection = <<>>
  THEN [binary_label |-> "benign", attack_type |-> "normal",
        binary_confidence |-> Q(1, 2), multiclass_confidence |-> Q(1, 2)]
  ELSE
    LET d == detection[1]
    IN  [binary_label |-> IF d.is_malicious THEN "malicious" ELSE "benign",
         attack_type |-> d.attack_type,
         binary_confidence |->
           IF d.is_malicious THEN QMax(Q(7, 10), d.confidence)
           ELSE QMax(Q(3, 10), QAdd(One, QMul(QInt(0 - 1), d.confidence))),
         multiclass_confidence |->
           IF d.is_malicious THEN QMax(Q(7, 10), d.confidence)
           ELSE QMax(Q(1, 2), QAdd(One, QMul(QInt(0 - 1), d.confidence)))]

\* lines 639-706: labels and confidences of the ML models
MLVerdict(cv) ==
  [binary_label |-> IF cv.binary_pred = 1 THEN "malicious" ELSE "benign",
   attack_type |-> IF cv.multiclass_pred \in 0..5
                   THEN AttackTypeNames[cv.multiclass_pred + 1] ELSE "unknown",
   binary_confidence |-> IF cv.multiclass_proba = <<>> THEN Q(1, 2)
                         ELSE cv.binary_proba,
   multiclass_confidence |->
     IF cv.multiclass_proba = <<>> THEN Q(1, 2)
     ELSE IF cv.multiclass_pred + 1 \in 1..Len(cv.multiclass_proba)
     THEN cv.multiclass_proba[cv.multiclass_pred + 1]
     ELSE LET p == cv.multiclass_proba
          IN  p[CHOOSE i \in 1..Len(p) : \A j \in 1..Len(p) : QLe(p[j], p[i])]]

\* the detector's type taken only where the ML model said normal
OverrideType_KeepML(ml, d) ==
  IF d.is_malicious
  THEN [binary_label |-> "malicious",
        attack_type |-> IF ml.attack_type = "normal"
                        THEN (IF d.attack_type # "normal" THEN d.attack_type
                              ELSE "unknown_attack")
                        ELSE ml.attack_type]
  ELSE [binary_label |-> ml.binary_label, attack_type |-> ml.attack_type]

\* lines 723-741: the label and the attack type once the detector's verdict
\* is taken into account
OverrideType(ml, d) ==
  LET t1 == IF d.is_malicious /\ d.attack_type # "normal"
            THEN d.attack_type ELSE ml.attack_type
  IN  IF d.is_malicious
      THEN [binary_label |-> "malicious",
            attack_type |-> IF d.attack_type # "normal" THEN d.attack_type
                            ELSE IF t1 = "normal" THEN "unknown_attack" ELSE t1]
      ELSE [binary_label |-> ml.binary_label, attack_type |-> t1]

\* the lowest tier adding 0.2 to the classifier's confidence
BoostConfidence_Additive(ml, d) ==
  LET c == d.confidence
      tier ==
        IF QGe(c, Q(8, 10))
        THEN [b |-> QMax(Q(95, 100), c), m |-> QMax(Q(90, 100), c)]
        ELSE IF QGe(c, Q(6, 10))
        THEN [b |-> QMax(Q(85, 100), c), m |-> QMax(Q(80, 100), c)]
        ELSE IF QGe(c, Q(4, 10))
        THEN [b |-> QMax(Q(75, 100), c), m |-> QMax(Q(70, 100), c)]
        ELSE [b |-> QAdd(ml.binary_confidence, Q(20, 100)),
              m |-> QAdd(ml.multiclass_confidence, Q(15, 100))]
  IN  IF d.attack_type = "unknown_attack"
      THEN [b |-> QMax(Q(80, 100), tier.b), m |-> QMax(Q(75, 100), tier.m)]
      ELSE tier

\* lines 743-759 and 790-794: the confidences when the detector says malicious
BoostConfidence(ml, d) ==
  LET c == d.confidence
      tier ==
        IF QGe(c, Q(8, 10))
        THEN [b |-> QMax(Q(95, 100), c), m |-> QMax(Q(90, 100), c)]
        ELSE IF QGe(c, Q(6, 10))
        THEN [b |-> QMax(Q(85, 100), c), m |-> QMax(Q(80, 100), c)]
        ELSE IF QGe(c, Q(4, 10))
        THEN [b |-> QMax(Q(75, 100), c), m |-> QMax(Q(70, 100), c)]
        ELSE [b |-> QMax(ml.binary_confidence, QAdd(c, Q(20, 100))),
              m |-> QMax(ml.multiclass_confidence, QAdd(c, Q(15, 100)))]
  IN  IF d.attack_type = "unknown_attack"
      THEN [b |-> QMax(Q(80, 100), tier.b), m |-> QMax(Q(75, 100), tier.m)]
      ELSE tier

\* lines 708-816: the detector's override of the ML verdict
Override(ml, detection) ==
  IF detection = <<>> THEN ml
  ELSE
    LET d == detection[1]
        t == OverrideType(ml, d)
    IN  IF d.is_malicious
        THEN LET c == BoostConfidence(ml, d)
             IN  [binary_label |-> t.binary_label, attack_type |-> t.attack_type,
                  binary_confidence |-> c.b, multiclass_confidence |-> c.m]
        ELSE IF ml.binary_label = "benign" /\ QGt(d.confidence, Q(3, 10))
        THEN [binary_label |-> t.binary_label, attack_type |-> t.attack_type,
              binary_confidence |->
                QMax(ml.binary_confidence, QMul(d.confidence, Q(8, 10))),
              multiclass_confidence |->
                QMax(ml.multiclass_confidence, QMul(d.confidence, Q(75, 100)))]
        ELSE [binary_label |-> t.binary_label, attack_type |-> t.attack_type,
              binary_confidence |-> ml.binary_confidence,
              multiclass_confidence |-> ml.multiclass_confidence]

\* lines 831-835 and 861-865: the predicted type alone, the six names at 0
FallbackProbs(attack_type, multiclass_confidence) ==
  [a \in NamedTypes \cup {attack_type} |->
     IF a = attack_type THEN multiclass_confidence ELSE Zero]

\* lines 836-859: probabilities from the detectors' scores
DetectorProbs(d) ==
  LET total_score == QSum([c \in DOMAIN d.all_scores |-> QMax(Zero, d.all_scores[c])])
      base ==
        IF QGt(total_score, Zero)
        THEN [a \in NamedTypes |->
                QMax(Zero, QMin(One, QDiv(d.all_scores[a], total_score)))]
        ELSE [a \in NamedTypes \cup {d.attack_type} |->
                IF a = d.attack_type THEN QMax(Q(1, 2), d.confidence) ELSE Zero]
  IN  [a \in DOMAIN base |->
         IF a = d.attack_type THEN QMax(base[a], d.confidence) ELSE base[a]]

\* lines 818-865: the probabilities before the boost
BaseProbs(use_ml, cv, v, detection) ==
  IF use_ml
  THEN IF cv.multiclass_proba # <<>>
       THEN [a \in NamedTypes |->
               LET i == CHOOSE j \in 1..Len(AttackTypeNames) : AttackTypeNames[j] = a
               IN  IF i <= Len(cv.multiclass_proba) THEN cv.multiclass_proba[i]
                   ELSE Zero]
       ELSE FallbackProbs(v.attack_type, v.multiclass_confidence)
  ELSE IF detection # <<>> THEN DetectorProbs(detection[1])
       ELSE FallbackProbs(v.attack_type, v.multiclass_confidence)

\* lines 898-911 and 927-940: normalisation to sum 1, uniform when the sum is 0
Normalize(probs) ==
  LET total_prob == QSum(probs)
  IN  IF QGt(total_prob, Zero)
      THEN [a \in DOMAIN probs |-> QDiv(probs[a], total_prob)]
      ELSE [a \in DOMAIN probs |-> Q(1, Cardinality(DOMAIN probs))]

\* lines 867-940: the boost of the probabilities when the detector says malicious
BoostProbs(probs, detection) ==
  IF detection = <<>> \/ ~detection[1].is_malicious THEN probs
  ELSE
    LET d == detection[1]
        c == d.confidence
    IN  IF d.attack_type \in DOMAIN probs
        THEN
          LET boosted ==
                [probs EXCEPT ![d.attack_type] =
                   QMax(QMax(probs[d.attack_type], c),
                        QMin(Q(95, 100), QAdd(c, Q(2, 10))))]
              reduced ==
                IF "normal" \in DOMAIN boosted
                THEN [boosted EXCEPT !["normal"] =
                        QMax(Zero, QMul(boosted["normal"],
                                        IF QGe(c, Q(7, 10)) THEN Q(1, 10)
                                        ELSE IF QGe(c, Q(5, 10)) THEN Q(3, 10)
                                        ELSE Q(5, 10)))]
                ELSE boosted
          IN  Normalize(
                [a \in DOMAIN reduced |->
                   IF a \in {"dos", "probe", "r2l", "u2r", "brute_force"}
                      /\ a # d.attack_type
                   THEN QMul(reduced[a], Q(7, 10)) ELSE reduced[a]])
        ELSE IF d.attack_type = "unknown_attack"
        THEN LET attack_prob == QDiv(c, QInt(5))
             IN  Normalize(
                   [a \in DOMAIN probs \cup {"dos", "probe", "r2l", "u2r", "brute_force"} |->
                      IF a \in {"dos", "probe", "r2l", "u2r", "brute_force"}
                      THEN QMax(QMax(IF a \in DOMAIN probs THEN probs[a] ELSE Zero,
                                     attack_prob),
                                QMin(Q(4, 10), QAdd(attack_prob, Q(1, 10))))
                      ELSE IF a = "normal" THEN QMax(Zero, QMul(probs[a], Q(2, 10)))
                      ELSE probs[a]])
        ELSE probs

\* lines 609-816: the verdict of the rule-only branch, or of the ML models
\* overridden by the detectors
Arbitrate(use_ml, cv, detection) ==
  IF use_ml THEN Override(MLVerdict(cv), detection)
  ELSE RuleOnlyVerdict(detection)

\* lines 818-951: the entry of the response for the packet
PredictResult(use_ml, cv, v, detection) ==
  [binary_prediction |-> v.binary_label,
   attack_type |-> v.attack_type,
   confidence |-> [binary |-> v.binary_confidence,
                   multiclass |-> v.multiclass_confidence],
   attack_type_probabilities |->
     BoostProbs(BaseProbs(use_ml, cv, v, detection), detection)]

\* the packet analysed by predict (first) and by preprocess_packet (second)
PredictAnalysed(use_ml, cv, first, second) ==
  [det |-> second.det,
   detection |-> <<first.result>>,
   recorded |-> first.recorded,
   result |-> Only({ PredictResult(use_ml, cv, v, <<first.result>>) :
                       v \in {Arbitrate(use_ml, cv, <<first.result>>)} })]

\* no source or destination address: analyze_packet is not called (line 570)
PredictUnanalysed(det, use_ml, cv) ==
  [det |-> det,
   detection |-> <<>>,
   recorded |-> FALSE,
   result |-> Only({ PredictResult(use_ml, cv, v, <<>>) :
                       v \in {Arbitrate(use_ml, cv, <<>>)} })]

\* preprocess_packet's analyze_packet call (line 206) on the maps the first
\* call left
PredictSecond(use_ml, cv, clean, first, t2) ==
  Only({ PredictAnalysed(use_ml, cv, first, second) :
           second \in {AnalyzePacket(first.det, clean, t2, t2)} })

\* predict() for one packet: the detectors' maps after the call, the verdict
\* of the first analyze_packet call (line 572) and the result returned.  The
\* first call reads the clock at t1, preprocess_packet's call (line 206) at t2.
PredictClean(det, use_ml, clean, cv, t1, t2) ==
  IF clean.start_ip # "" /\ clean.end_ip # ""
  THEN Only({ PredictSecond(use_ml, cv, clean, first, t2) :
                first \in {AnalyzePacket(det, clean, t1, t1)} })
  ELSE PredictUnanalysed(det, use_ml, cv)

Predict(det, use_ml, packet, cv, t1, t2) ==
  PredictClean(det, use_ml, Sanitize(packet), cv, t1, t2)

(* --------------------------- the state machine ------------------------ *)

VARIABLES
  port_tracking,          \* PortScanDetector.port_tracking
  dos_tracking,           \* DoSDetector.dos_tracking
  r2l_tracking,           \* R2LDetector.r2l_tracking
  u2r_tracking,           \* U2RDetector.u2r_tracking
  brute_force_tracking,   \* BruteForceDetector.brute_force_tracking
  USE_ML_MODELS,          \* prediction_service.USE_ML_MODELS
  clock,                  \* datetime.now(), in ticks
  calls,                  \* recording calls served so far
  dest_seen,              \* history: <<source, destination>> -> time of the last
                          \* event analyze_packet recorded for the pair
  ret,                    \* the last call and what it returned
  threads,                \* each request thread's position in the detector
                          \* call it is executing
  lock                    \* each detector's self.lock: the thread holding it, or 0

vars == <<port_tracking, dos_tracking, r2l_tracking, u2r_tracking,
          brute_force_tracking, USE_ML_MODELS, clock, calls, dest_seen, ret,
          threads, lock>>

tracking_maps == <<port_tracking, dos_tracking, r2l_tracking, u2r_tracking,
                   brute_force_tracking>>

Detectors == [ps |-> port_tracking, dos |-> dos_tracking, r2l |-> r2l_tracking,
              u2r |-> u2r_tracking, bf |-> brute_force_tracking]

DetectorNames == {"ps", "dos", "r2l", "u2r", "bf"}

\* the request threads of the service (app.run(threaded=True))
Threads == {1, 2}

\* a thread that is in no detector call
IdleThread == [at |-> "idle"]

Sources == {"10.0.0.1", "10.0.0.2"}

Dests == {"10.0.0.8", "10.0.0.9"}

IntBytes(n) == [k |-> "int", v |-> n]
StrBytes == [k |-> "str", v |-> 0]
Arrow(port, text) == [arrow |-> TRUE, port |-> [k |-> "int", v |-> port], text |-> text]
ArrowWord == [arrow |-> TRUE, port |-> [k |-> "word", v |-> 0], text |-> ""]
NoArrow(text) == [arrow |-> FALSE, port |-> [k |-> "none", v |-> 0], text |-> text]
Pkt(src, dst, bytes, description) ==
  [start_ip |-> src, end_ip |-> dst, start_bytes |-> bytes,
   description |-> description]

\* the packets submitted to analyze_packet and predict
Packets ==
  { Pkt("10.0.0.1", "10.0.0.8", IntBytes(40), Arrow(22, "failed")),
    Pkt("10.0.0.1", "10.0.0.9", IntBytes(1500), Arrow(70000, "")),
    Pkt("10.0.0.1", "10.0.0.8", StrBytes, Arrow(22, "")),
    Pkt("10.0.0.2", "10.0.0.8", IntBytes(40), ArrowWord),
    Pkt("0.0.0.0", "10.0.0.8", IntBytes(40), NoArrow("")),
    Pkt("10.0.0.1", "", IntBytes(40), Arrow(22, "")) }

\* the verdicts of the classifier
ClassifierVerdicts ==
  { [binary_pred |-> 0, multiclass_pred |-> 0, binary_proba |-> Q(1, 100),
     multiclass_proba |-> <<Q(99, 100), Q(1, 100), Zero, Zero, Zero, Zero>>],
    [binary_pred |-> 1, multiclass_pred |-> 1, binary_proba |-> Q(9, 10),
     multiclass_proba |-> <<Q(1, 10), Q(6, 10), Q(3, 10), Zero, Zero, Zero>>],
    [binary_pred |-> 0, multiclass_pred |-> 0, binary_proba |-> Zero,
     multiclass_proba |-> <<>>] }

\* the flags of the direct R2LDetector.add_packet calls:
\* <<is_failed_login, is_privilege_attempt, suspicious_command>>
R2LFlags == {<<FALSE, TRUE, FALSE>>}

\* the flags of the direct U2RDetector.add_packet calls:
\* <<is_root_command, is_setuid_attempt, is_buffer_overflow, suspicious_file>>
U2RFlags == {<<FALSE, FALSE, TRUE, FALSE>>}

\* the instants at which the clock is read: the start, the tick after it, and
\* the ends of the two window lengths
Instants == {0, 1, PortScanWindow * TPS, R2LWindow * TPS}

\* the classifier is not consulted when the ML models are disabled
NoClassifier ==
  [binary_pred |-> 0, multiclass_pred |-> 0, binary_proba |-> Zero,
   multiclass_proba |-> <<>>]

Init ==
  /\ port_tracking = NoTracking
  /\ dos_tracking = NoTracking
  /\ r2l_tracking = NoTracking
  /\ u2r_tracking = NoTracking
  /\ brute_force_tracking = NoTracking
  /\ USE_ML_MODELS = FALSE
  /\ clock = 0
  /\ calls = 0
  /\ dest_seen = NoTracking
  /\ ret = [op |-> "init"]
  /\ threads = [t \in Threads |-> IdleThread]
  /\ lock = [d \in DetectorNames |-> 0]

\* the service started with either setting of the USE_ML_MODELS environment
\* variable
InitPredict ==
  /\ port_tracking = NoTracking
  /\ dos_tracking = NoTracking
  /\ r2l_tracking = NoTracking
  /\ u2r_tracking = NoTracking
  /\ brute_force_tracking = NoTracking
  /\ USE_ML_MODELS \in BOOLEAN
  /\ clock = 0
  /\ calls = 0
  /\ dest_seen = NoTracking
  /\ ret = [op |-> "init"]
  /\ threads = [t \in Threads |-> IdleThread]
  /\ lock = [d \in DetectorNames |-> 0]

SetDetectors(det) ==
  /\ port_tracking' = det.ps
  /\ dos_tracking' = det.dos
  /\ r2l_tracking' = det.r2l
  /\ u2r_tracking' = det.u2r
  /\ brute_force_tracking' = det.bf

\* time passes
Tick ==
  \E t \in Instants :
    /\ t > clock
    /\ clock' = t
    /\ ret' = [op |-> "tick"]
    /\ UNCHANGED <<tracking_maps, USE_ML_MODELS, threads, lock, calls, dest_seen>>

Seen(seen, packet, recorded, t) ==
  IF recorded
  THEN (<<Strip(packet.start_ip), Strip(packet.end_ip)>> :> t) @@ seen
  ELSE seen

\* comprehensive_detector.analyze_packet(packet)
AnalyzePacketCall(budget) ==
  /\ calls < budget
  /\ \E packet \in Packets :
    \E r \in {AnalyzePacket(Detectors, packet, clock, clock)} :
      /\ calls' = calls + 1
      /\ SetDetectors(r.det)
      /\ clock' = clock
      /\ dest_seen' = Seen(dest_seen, packet, r.recorded, clock)
      /\ ret' = [op |-> "analyze_packet", packet |-> packet,
                 source_ip |-> Strip(packet.start_ip),
                 fresh |-> \A d \in DetectorNames :
                             Strip(packet.start_ip) \notin DOMAIN Detectors[d],
                 recorded |-> r.recorded, t_rec |-> clock, now |-> clock,
                 result |-> r.result]
      /\ UNCHANGED <<USE_ML_MODELS, threads, lock>>

\* POST /predict with one packet
PredictCall(budget) ==
  /\ calls < budget
  /\ \E packet \in Packets,
        cv \in IF USE_ML_MODELS THEN ClassifierVerdicts ELSE {NoClassifier} :
    \E r \in {Predict(Detectors, USE_ML_MODELS, packet, cv, clock, clock)} :
      /\ calls' = calls + 1
      /\ SetDetectors(r.det)
      /\ clock' = clock
      /\ dest_seen' = Seen(dest_seen, packet, r.recorded, clock)
      /\ ret' = [op |-> "predict", packet |-> packet, cv |-> cv,
                 detection |-> r.detection, result |-> r.result]
      /\ UNCHANGED <<USE_ML_MODELS, threads, lock>>

\* r2l_detector.add_packet(source_ip, dest_ip, ...)
R2LAddCall(budget) ==
  \E source_ip \in {"10.0.0.1"}, dest_ip \in {"10.0.0.8"}, f \in R2LFlags :
    /\ calls < budget
    /\ calls' = calls + 1
    /\ r2l_tracking' = R2LAdd(r2l_tracking, source_ip, dest_ip, f[1], f[2], f[3], clock)
    /\ ret' = [op |-> "add_packet", detector |-> "r2l", source_ip |-> source_ip]
    /\ UNCHANGED <<port_tracking, dos_tracking, u2r_tracking, brute_force_tracking,
                   USE_ML_MODELS, threads, lock, clock, dest_seen>>

\* u2r_detector.add_packet(source_ip, ...)
U2RAddCall(budget) ==
  \E source_ip \in {"10.0.0.1"}, f \in U2RFlags :
    /\ calls < budget
    /\ calls' = calls + 1
    /\ u2r_tracking' = U2RAdd(u2r_tracking, source_ip, f[1], f[2], f[3], f[4], clock)
    /\ ret' = [op |-> "add_packet", detector |-> "u2r", source_ip |-> source_ip]
    /\ UNCHANGED <<port_tracking, dos_tracking, r2l_tracking, brute_force_tracking,
                   USE_ML_MODELS, threads, lock, clock, dest_seen>>

\* get_features(source_ip) of one detector
GetFeatures(detector, tracking, source_ip, now) ==
  CASE detector = "ps" -> PortScanGetFeatures(tracking, source_ip, now)
    [] detector = "dos" -> DoSGetFeatures(tracking, source_ip, now)
    [] detector = "r2l" -> R2LGetFeatures(tracking, source_ip, now)
    [] detector = "u2r" -> U2RGetFeatures(tracking, source_ip, now)
    [] detector = "bf" -> BruteForceGetFeatures(tracking, source_ip, now)

\* whether the call before this one was the same query at the same instant
SameQuery(last, detector, source_ip, now) ==
  /\ last.op = "get_features"
  /\ last.detector = detector
  /\ last.source_ip = source_ip
  /\ last.now = now

\* detector.get_features(source_ip); prev holds what the same query returned
\* when it was also the call before this one
GetFeaturesCall ==
  \E detector \in DetectorNames, source_ip \in Sources :
    \E r \in {GetFeatures(detector, Detectors[detector], source_ip, clock)} :
      /\ SetDetectors([Detectors EXCEPT ![detector] = r.tracking])
      /\ ret' = [op |-> "get_features", detector |-> detector,
                 source_ip |-> source_ip, now |-> clock,
                 known |-> source_ip \in DOMAIN Detectors[detector],
                 prev |-> IF SameQuery(ret, detector, source_ip, clock)
                          THEN <<ret.features>> ELSE <<>>,
                 features |-> r.features]
      /\ UNCHANGED <<USE_ML_MODELS, threads, lock, clock, calls, dest_seen>>

\* the aggregator fed with packets, and the two detectors it does not feed
\* fed directly
Next ==
  \/ Tick
  \/ AnalyzePacketCall(MaxCalls)
  \/ R2LAddCall(MaxCalls)
  \/ U2RAddCall(MaxCalls)

Spec == Init /\ [][Next]_vars

\* the prediction service
NextPredict ==
  \/ Tick
  \/ PredictCall(MaxRequests)
  \/ R2LAddCall(MaxRequests)
  \/ U2RAddCall(MaxRequests)

SpecPredict == InitPredict /\ [][NextPredict]_vars

\* the detectors fed and queried one by one
NextDetectors ==
  \/ Tick
  \/ AnalyzePacketCall(MaxOps)
  \/ R2LAddCall(MaxOps)
  \/ U2RAddCall(MaxOps)
  \/ GetFeaturesCall

SpecDetectors == Init /\ [][NextDetectors]_vars

(* ------------------------------ properties ---------------------------- *)

\* the rule-based verdict predict() obtained for the packet it answered
RuleVerdictMalicious ==
  /\ ret.op = "predict"
  /\ ret.detection # <<>>
  /\ ret.detection[1].is_malicious

\* C1: whenever the rule-based verdict of a packet is malicious, the response
\* of predict is labelled malicious and carries the rule-based attack type,
\* whatever the classifier said and in either mode.
C1_RuleWinsOverClassifier ==
  RuleVerdictMalicious =>
    /\ ret.result.binary_prediction = "malicious"
    /\ ret.result.attack_type = ret.detection[1].attack_type

\* C1 happens: the classifier called the packet benign and normal, the rule
\* engine called it a u2r attack, and the response says u2r
C1_Witness ==
  /\ RuleVerdictMalicious
  /\ USE_ML_MODELS
  /\ ret.cv.binary_pred = 0
  /\ ret.cv.multiclass_pred = 0
  /\ ret.cv.multiclass_proba # <<>>
  /\ ret.detection[1].attack_type = "u2r"
  /\ ret.result.attack_type = "u2r"

\* C2: the attack_type_probabilities of every response are non-negative and
\* sum to one, in ML mode and in rule-only mode.
C2_ProbabilitiesSumToOne ==
  ret.op = "predict" =>
    LET probs == ret.result.attack_type_probabilities
    IN  /\ \A k \in DOMAIN probs : QGe(probs[k], Zero)
        /\ QSum(probs) = One

\* the active flags of the five feature records of a verdict
AnyActive(result) ==
  \/ result.port_scan_features.is_port_scan
  \/ result.dos_features.is_dos
  \/ result.r2l_features.is_r2l
  \/ result.u2r_features.is_u2r
  \/ result.brute_force_features.is_brute_force

\* C3: analyze_packet never returns is_malicious together with attack_type
\* normal; when a detector's active flag is set and no score exceeds 0.3 the
\* category is unknown_attack.
C3_NeverMaliciousNormal ==
  ret.op = "analyze_packet" =>
    LET r == ret.result
    IN  /\ ~(r.is_malicious /\ r.attack_type = "normal")
        /\ (/\ AnyActive(r)
            /\ \A c \in DOMAIN r.all_scores : ~QGt(r.all_scores[c], Q(3, 10)))
           => r.attack_type = "unknown_attack"

\* C3 happens: three privilege attempts set the R2L flag with a score of 0.3,
\* and the verdict is malicious of type unknown_attack
C3_Witness ==
  /\ ret.op = "analyze_packet"
  /\ ret.result.r2l_features.is_r2l
  /\ ret.result.r2l_features.r2l_score = Q(3, 10)
  /\ ret.result.is_malicious
  /\ ret.result.attack_type = "unknown_attack"

\* the score and the active flag of a detector's feature record
FeatureScore(detector, f) ==
  CASE detector = "ps" -> f.port_scan_score
    [] detector = "dos" -> f.dos_score
    [] detector = "r2l" -> f.r2l_score
    [] detector = "u2r" -> f.u2r_score
    [] detector = "bf" -> f.brute_force_score

FeatureActive(detector, f) ==
  CASE detector = "ps" -> f.is_port_scan
    [] detector = "dos" -> f.is_dos
    [] detector = "r2l" -> f.is_r2l
    [] detector = "u2r" -> f.is_u2r
    [] detector = "bf" -> f.is_brute_force

\* the source has no entry in the detector's map, or (60-second detectors)
\* no timestamp later than the cutoff
NoLiveData(detector, source_ip, now) ==
  \/ source_ip \notin DOMAIN Detectors[detector]
  \/ /\ detector = "ps"
     /\ Recent(port_tracking[source_ip].timestamps,
               Cutoff(now, PortScanWindow)) = <<>>
  \/ /\ detector = "dos"
     /\ SelectSeq(dos_tracking[source_ip].packets,
                  LAMBDA e : e[1] > Cutoff(now, DoSWindow)) = <<>>

\* C4: a source without recorded history gets score 0 and an inactive flag
\* from every detector's get_features, and the first event analysed for a
\* source yields attack_type normal, is_malicious false and confidence 0.
C4_NoHistoryIsNormal ==
  /\ \A detector \in DetectorNames, source_ip \in Sources :
       NoLiveData(detector, source_ip, clock) =>
         LET f == GetFeatures(detector, Detectors[detector], source_ip,
                              clock).features
         IN  /\ FeatureScore(detector, f) = Zero
             /\ ~FeatureActive(detector, f)
  /\ (ret.op = "analyze_packet" /\ ret.fresh) =>
       /\ ret.result.attack_type = "normal"
       /\ ~ret.result.is_malicious
       /\ ret.result.confidence = Zero

\* C4 happens: the first event of a source was recorded and analysed, and the
\* other source still has no entry in any detector
C4_Witness ==
  /\ ret.op = "analyze_packet"
  /\ ret.fresh
  /\ ret.recorded
  /\ ret.source_ip \in DOMAIN port_tracking
  /\ ret.result.attack_type = "normal"
  /\ \E source_ip \in Sources :
       \A detector \in DetectorNames : source_ip \notin DOMAIN Detectors[detector]

\* the (port, timestamp) pairs of a source recorded later than the cutoff
LivePortEvents(source_ip, now) ==
  SelectSeq(port_tracking[source_ip].sequential_ports,
            LAMBDA e : e[2] > Cutoff(now, PortScanWindow))

\* the destinations a source sent an event to later than the cutoff
LiveDests(source_ip, now, window) ==
  {d \in Dests : /\ <<source_ip, d>> \in DOMAIN dest_seen
                 /\ dest_seen[<<source_ip, d>>] > Cutoff(now, window)}

\* C6: the aggregates of the 60-second detectors that enter the score of a
\* query at time t (distinct ports, sequential (port, timestamp) list,
\* distinct destinations) reflect only events recorded later than t - 60 s.
C6_NoExpiredAggregates ==
  /\ \A source_ip \in DOMAIN port_tracking :
       LET f == PortScanGetFeatures(port_tracking, source_ip, clock).features
           live == LivePortEvents(source_ip, clock)
       IN  Recent(port_tracking[source_ip].timestamps,
                  Cutoff(clock, PortScanWindow)) # <<>> =>
             /\ f.unique_ports = Cardinality({live[i][1] : i \in 1..Len(live)})
             /\ f.sequential_score = CheckSequentialPorts(live)
             /\ f.unique_dest_ips =
                  Cardinality(LiveDests(source_ip, clock, PortScanWindow))
  /\ \A source_ip \in DOMAIN dos_tracking :
       LET f == DoSGetFeatures(dos_tracking, source_ip, clock).features
       IN  f.packet_count > 0 =>
             f.unique_dest_ips = Cardinality(LiveDests(source_ip, clock, DoSWindow))

\* analyze_packet was called with usable addresses
ValidAddresses(packet) ==
  /\ Strip(packet.start_ip) \notin {"", "0.0.0.0"}
  /\ Strip(packet.end_ip) \notin {"", "0.0.0.0"}

\* C7: after analyze_packet returns for an event with valid addresses, each
\* of the five detectors has updated its state for the event's source.
C7_FedToAllFiveDetectors ==
  (/\ ret.op = "analyze_packet"
   /\ ValidAddresses(ret.packet)
   /\ ret.packet.start_bytes.k = "int") =>
    \A detector \in DetectorNames : ret.source_ip \in DOMAIN Detectors[detector]

Range(xs) == {xs[i] : i \in 1..Len(xs)}

\* C8: an event with valid addresses and a non-numeric byte size is still
\* recorded by the port-scan detector and, on a login port, by the
\* brute-force detector.
C8_MalformedSizeStillRecorded ==
  (/\ ret.op = "analyze_packet"
   /\ ValidAddresses(ret.packet)
   /\ ret.packet.start_bytes.k # "int") =>
    /\ ret.source_ip \in DOMAIN port_tracking
    /\ ret.t_rec \in Range(port_tracking[ret.source_ip].timestamps)
    /\ ret.source_ip \in DOMAIN brute_force_tracking
    /\ LET dest_port == ParsePort(ret.packet.description)
       IN  (dest_port # <<>> /\ dest_port[1] \in LoginPorts) =>
             ret.t_rec \in Range(brute_force_tracking[ret.source_ip].login_attempts)

\* what a query of a 300-second detector at time now returns when it counts
\* only the events of the source recorded later than now - 300 s
LiveCounts(detector, source_ip, now) ==
  LET n(xs, window) == Len(Recent(xs, Cutoff(now, window)))
  IN  CASE detector = "r2l" ->
             LET data == r2l_tracking[source_ip]
                 r == R2LScore(n(data.failed_logins, R2LWindow),
                               n(data.privilege_escalation, R2LWindow),
                               n(data.suspicious_commands, R2LWindow))
             IN  [counts |-> <<n(data.failed_logins, R2LWindow),
                               n(data.privilege_escalation, R2LWindow),
                               n(data.suspicious_commands, R2LWindow)>>,
                  score |-> r.score, active |-> r.active]
        [] detector = "u2r" ->
             LET data == u2r_tracking[source_ip]
                 r == U2RScore(n(data.root_commands, U2RWindow),
                               n(data.setuid_attempts, U2RWindow),
                               n(data.buffer_overflow_patterns, U2RWindow),
                               n(data.suspicious_file_access, U2RWindow))
             IN  [counts |-> <<n(data.root_commands, U2RWindow),
                               n(data.setuid_attempts, U2RWindow),
                               n(data.buffer_overflow_patterns, U2RWindow),
                               n(data.suspicious_file_access, U2RWindow)>>,
                  score |-> r.score, active |-> r.active]
        [] detector = "bf" ->
             LET data == brute_force_tracking[source_ip]
                 r == BruteForceScore(n(data.login_attempts, BruteForceWindow),
                                      n(data.failed_attempts, BruteForceWindow),
                                      n(data.successful_after_failures,
                                        BruteForceWindow))
             IN  [counts |-> <<n(data.login_attempts, BruteForceWindow),
                               n(data.failed_attempts, BruteForceWindow),
                               n(data.successful_after_failures,
                                 BruteForceWindow)>>,
                  score |-> r.score, active |-> r.active]

\* the event counts of a feature record of a 300-second detector
ReportedCounts(detector, f) ==
  CASE detector = "r2l" ->
         <<f.failed_logins, f.privilege_attempts, f.suspicious_commands>>
    [] detector = "u2r" ->
         <<f.root_commands, f.setuid_attempts, f.buffer_overflow_patterns,
           f.suspicious_file_access>>
    [] detector = "bf" ->
         <<f.login_attempts, f.failed_attempts, f.success_after_failures>>

\* C5: a get_features query of the R2L, U2R or brute-force detector at time t
\* counts only the events recorded later than t - 300 s; a source that
\* recorded nothing in the last 300 s gets score 0 and an inactive flag.
C5_ExpiryOnRead ==
  (/\ ret.op = "get_features"
   /\ ret.detector \in {"r2l", "u2r", "bf"}
   /\ ret.known) =>
    LET live == LiveCounts(ret.detector, ret.source_ip, ret.now)
    IN  /\ ReportedCounts(ret.detector, ret.features) = live.counts
        /\ FeatureScore(ret.detector, ret.features) = live.score
        /\ FeatureActive(ret.detector, ret.features) = live.active

ScenarioSource == "10.0.0.1"
ScenarioDest == "10.0.0.8"

\* the ports first, first + stride, ... of a scan of n ports
Stride(first, stride, n) == [i \in 1..n |-> first + stride * (i - 1)]

\* n packets of one size sent over spread ticks, evenly spaced; ports holds
\* the destination port of each packet, or is <<>> when the descriptions
\* carry no port
Run(n, spread, bytes, ports, text) ==
  [n |-> n, spread |-> spread, bytes |-> bytes, ports |-> ports, text |-> text]

\* a scan of the given ports
Scan(ports, spread) == Run(Len(ports), spread, 60, ports, "")

\* the runs of traffic a source sends: port scans, among them a short one of
\* the ports 1, 2, 3, floods of 150 packets per second for 5 seconds, and 12
\* failed logins on port 22
Runs ==
  { Scan(ports, spread) :
      ports \in { Stride(1, 1, 5) \o <<10, 20, 30>>, Stride(1000, 2, 12),
                  Stride(1, 1, 25), Stride(1000, 7, 25) },
      spread \in {0, 1, 2 * TPS} }
  \cup { Scan(Stride(1, 1, 3), 2 * TPS) }
  \cup { Run(150 * 5, 5 * TPS, bytes, <<>>, "") : bytes \in {60, 1000} }
  \cup { Run(12, spread, 60, [i \in 1..12 |-> 22], "failed") :
           spread \in {0, 1, 2 * TPS, BruteForceWindow * TPS - 1} }

\* the instant the i-th packet of a run that starts at start is analysed
EventTime(run, start, i) ==
  IF run.n = 1 THEN start ELSE start + ((i - 1) * run.spread) \div (run.n - 1)

\* the i-th packet of a run
EventPacket(run, i) ==
  Pkt(ScenarioSource, ScenarioDest, IntBytes(run.bytes),
      IF run.ports = <<>> THEN NoArrow(run.text) ELSE Arrow(run.ports[i], run.text))

\* analyze_packet called for the packets lo..hi of a run, in order, on the
\* outcome r of the calls before them
RECURSIVE AnalyzeRun(_, _, _, _, _)
AnalyzeRun(r, run, start, lo, hi) ==
  IF lo = hi
  THEN Only({ AnalyzePacket(det, EventPacket(run, lo), t, t) :
                det \in {r.det}, t \in {EventTime(run, start, lo)} })
  ELSE Only({ AnalyzeRun(first, run, start, (lo + hi) \div 2 + 1, hi) :
                first \in {AnalyzeRun(r, run, start, lo, (lo + hi) \div 2)} })

\* a source not seen before sends a run of packets, each analysed as it arrives
RunCall ==
  /\ \A d \in DetectorNames : ScenarioSource \notin DOMAIN Detectors[d]
  /\ \E run \in Runs :
    \E r \in {AnalyzeRun([det |-> Detectors], run, clock, 1, run.n)} :
      /\ SetDetectors(r.det)
      /\ clock' = clock + run.spread
      /\ dest_seen' = Seen(dest_seen, EventPacket(run, run.n), r.recorded,
                           clock + run.spread)
      /\ ret' = [op |-> "run", run |-> run, source_ip |-> ScenarioSource,
                 result |-> r.result]
      /\ UNCHANGED <<USE_ML_MODELS, threads, lock, calls>>

\* the destination ports of the single events recorded after a run
ProbePorts == {6, 40, 2000}

\* all events the port-scan detector holds for a source are inside the window
\* that ends at now
AllLive(tracking, source_ip, now) ==
  /\ source_ip \in DOMAIN tracking
  /\ tracking[source_ip].timestamps # <<>>
  /\ \A i \in 1..Len(tracking[source_ip].timestamps) :
       tracking[source_ip].timestamps[i] > Cutoff(now, PortScanWindow)

\* port_scan_detector.add_packet(source_ip, dest_ip, dest_port) for one more
\* event, with port_scan_detector.get_features(source_ip) read just before and
\* just after it
PortScanAddCall(budget) ==
  /\ calls < budget
  /\ \E dest_port \in ProbePorts :
    \E before \in {PortScanGetFeatures(port_tracking, ScenarioSource, clock)} :
      \E added \in {PortScanAdd(before.tracking, ScenarioSource, ScenarioDest,
                                <<dest_port>>, clock)} :
        \E after \in {PortScanGetFeatures(added, ScenarioSource, clock)} :
          /\ calls' = calls + 1
          /\ port_tracking' = after.tracking
          /\ ret' = [op |-> "port_scan_event", source_ip |-> ScenarioSource,
                     dest_port |-> dest_port,
                     new_port |-> \/ ScenarioSource \notin DOMAIN port_tracking
                                  \/ dest_port \notin port_tracking[ScenarioSource].ports,
                     live |-> AllLive(port_tracking, ScenarioSource, clock),
                     before |-> before.features, after |-> after.features]
          /\ UNCHANGED <<dos_tracking, r2l_tracking, u2r_tracking,
                         brute_force_tracking, USE_ML_MODELS, threads, lock,
                         clock, dest_seen>>

\* runs of traffic from a fresh source, followed by single port-scan events
NextScenarios ==
  \/ Tick
  \/ RunCall
  \/ PortScanAddCall(MaxAdds)

SpecScenarios == Init /\ [][NextScenarios]_vars

\* C11: with the events a source already has inside the window held fixed,
\* recording one more event to a port not yet in its port set never makes
\* port_scan_score lower than it was just before that event.
C11_PortScanMonotone ==
  (ret.op = "port_scan_event" /\ ret.new_port /\ ret.live)
    => QGe(ret.after.port_scan_score, ret.before.port_scan_score)

(* ------------------------- the rule cascades -------------------------- *)

\* the detectors whose get_features is a cascade of if/elif rules over counts
CascadeDetectors == {"r2l", "u2r", "bf"}

\* the numbers of events of each kind recorded for a source: failed logins,
\* privilege attempts and suspicious commands (R2L); root commands, setuid
\* attempts, buffer-overflow patterns and suspicious file accesses (U2R);
\* plain, failed and successful-after-failures login attempts (brute force)
EventCounts(detector) ==
  CASE detector = "r2l" -> {0, 4, 5, 9, 20} \X {0, 2, 3, 10} \X {0, 4, 5, 15}
    [] detector = "u2r" -> {0, 2, 3, 10} \X {0, 1, 2, 5} \X {0, 1} \X {0, 4, 5, 15}
    [] detector = "bf" -> {0, 3, 8, 20, 31} \X {0, 3, 5, 10} \X {0, 1}

\* one add_packet call of a cascade detector for an event of the k-th kind
AddEvent(tracking, detector, k, now) ==
  CASE detector = "r2l" ->
         R2LAdd(tracking, ScenarioSource, ScenarioDest, k = 1, k = 2, k = 3, now)
    [] detector = "u2r" ->
         U2RAdd(tracking, ScenarioSource, k = 1, k = 2, k = 3, k = 4, now)
    [] detector = "bf" ->
         BruteForceAdd(tracking, ScenarioSource, <<22>>, TRUE, k = 2, k = 3, now)

\* add_packet called counts[k] times for each kind k of event
RECURSIVE AddEvents(_, _, _, _)
AddEvents(tracking, detector, counts, now) ==
  IF \A k \in DOMAIN counts : counts[k] = 0 THEN tracking
  ELSE LET k == CHOOSE i \in DOMAIN counts :
                  counts[i] > 0 /\ \A j \in 1..(i - 1) : counts[j] = 0
       IN  Only({ AddEvents(t, detector, [counts EXCEPT ![k] = @ - 1], now) :
                    t \in {AddEvent(tracking, detector, k, now)} })

\* a cascade detector that holds nothing records the events of a source and
\* is queried for it
CascadeCall ==
  /\ \A d \in CascadeDetectors : Detectors[d] = NoTracking
  /\ \E detector \in CascadeDetectors :
    \E counts \in EventCounts(detector) :
      \E r \in {GetFeatures(detector,
                            AddEvents(Detectors[detector], detector, counts, clock),
                            ScenarioSource, clock)} :
        /\ SetDetectors([Detectors EXCEPT ![detector] = r.tracking])
        /\ ret' = [op |-> "cascade", detector |-> detector,
                   source_ip |-> ScenarioSource, features |-> r.features]
        /\ UNCHANGED <<USE_ML_MODELS, threads, lock, clock, calls, dest_seen>>

\* the branches of the cascade of a detector's get_features, each on its own,
\* in the order of the code: whether its condition holds for the counts c (as
\* ReportedCounts lists them), and the score and the flag its body assigns
Rules(detector, c) ==
  CASE detector = "r2l" ->
         << [holds |-> c[1] >= 5, score |-> QMin(One, Q(c[1], 20)),
             active |-> QGt(QMin(One, Q(c[1], 20)), Q(4, 10))],
            [holds |-> c[2] >= 3, score |-> QMin(One, Q(c[2], 10)),
             active |-> TRUE],
            [holds |-> c[3] >= 5, score |-> QMin(One, Q(c[3], 15)),
             active |-> QGt(QMin(One, Q(c[3], 15)), Q(3, 10))] >>
    [] detector = "u2r" ->
         << [holds |-> c[1] >= 3, score |-> QMin(One, Q(c[1], 10)),
             active |-> TRUE],
            [holds |-> c[2] >= 2, score |-> QMin(One, Q(c[2], 5)),
             active |-> TRUE],
            [holds |-> c[3] >= 1, score |-> Q(8, 10), active |-> TRUE],
            [holds |-> c[4] >= 5, score |-> QMin(One, Q(c[4], 15)),
             active |-> QGt(QMin(One, Q(c[4], 15)), Q(3, 10))] >>
    [] detector = "bf" ->
         LET failure_rate == IF c[1] > 0 THEN Q(c[2], c[1]) ELSE Zero
             weighted == QMin(One, QMul(failure_rate, Q(c[2], 10)))
         IN  << [holds |-> c[2] >= 10, score |-> QMin(One, Q(c[2], 50)),
                 active |-> TRUE],
                [holds |-> c[2] >= 5 /\ c[1] >= 8, score |-> weighted,
                 active |-> QGt(weighted, Q(4, 10))],
                [holds |-> c[3] >= 1 /\ c[2] >= 3, score |-> Q(9, 10),
                 active |-> TRUE],
                [holds |-> c[1] >= 20, score |-> QMin(One, Q(c[1], 100)),
                 active |-> QGt(QMin(One, Q(c[1], 100)), Q(3, 10))] >>

\* the cascade detectors fed with counts of events and queried
NextRules ==
  \/ Tick
  \/ CascadeCall

SpecRules == Init /\ [][NextRules]_vars

\* C12: for R2LDetector, U2RDetector and BruteForceDetector the score and the
\* active flag returned for a source are exactly those of the first rule, in
\* priority order, whose condition holds for the source's counts (0.0 and
\* False when none holds); a later rule whose condition also holds changes
\* nothing, even when it would give a higher score.
C12_FirstRuleDecides ==
  ret.op = "cascade" =>
    LET rules   == Rules(ret.detector, ReportedCounts(ret.detector, ret.features))
        holding == {i \in 1..Len(rules) : rules[i].holds}
        first   == CHOOSE i \in holding : \A j \in holding : i <= j
    IN  IF holding = {}
        THEN /\ FeatureScore(ret.detector, ret.features) = Zero
             /\ ~FeatureActive(ret.detector, ret.features)
        ELSE /\ FeatureScore(ret.detector, ret.features) = rules[first].score
             /\ FeatureActive(ret.detector, ret.features) = rules[first].active

\* C12 happens: a source with 10 failed logins and a success after failures
\* satisfies the first and the third brute-force rule, and is scored 10/50 by
\* the first although the third would give 0.9
C12_Witness ==
  /\ ret.op = "cascade"
  /\ ret.detector = "bf"
  /\ ret.features.failed_attempts >= 10
  /\ ret.features.success_after_failures >= 1
  /\ ret.features.brute_force_score = Q(1, 5)
  /\ ret.features.is_brute_force

(* ------------------------ properties of the runs ---------------------- *)

\* C13: after one source sends events to 25 distinct destination ports within
\* 2 seconds, PortScanDetector reports port_scan_score > 0.4 and is_port_scan,
\* and analyze_packet reports attack_type 'probe'.
C13_PortScanScenario ==
  (/\ ret.op = "run"
   /\ Cardinality(Range(ret.run.ports)) = 25
   /\ ret.run.spread <= 2 * TPS)
    => /\ QGt(ret.result.port_scan_features.port_scan_score, Q(4, 10))
       /\ ret.result.port_scan_features.is_port_scan
       /\ ret.result.attack_type = "probe"

\* C14: after one source sends 150 packets per second to a single destination
\* for 5 seconds, whatever the packet size, DoSDetector reports is_dos and
\* analyze_packet reports attack_type 'dos'.
C14_DoSScenario ==
  (/\ ret.op = "run"
   /\ ret.run.n = 150 * 5
   /\ ret.run.spread = 5 * TPS)
    => /\ ret.result.dos_features.is_dos
       /\ ret.result.attack_type = "dos"

\* the last call ended a run of 12 failed logins on a login port, sent within
\* 300 seconds
TwelveFailedLogins ==
  /\ ret.op = "run"
  /\ ret.run.n = 12
  /\ ret.run.text = "failed"
  /\ ret.run.spread < BruteForceWindow * TPS

\* what C15 expects of the verdict after the run
BoundaryVerdict ==
  /\ ret.result.brute_force_features.brute_force_score = Q(12, 50)
  /\ ret.result.brute_force_features.is_brute_force
  /\ ret.result.is_malicious
  /\ ret.result.attack_type = "unknown_attack"
  /\ ret.result.confidence = Q(24, 100)

C16_ConfidenceFloors ==
  RuleVerdictMalicious =>
    LET c == ret.detection[1].confidence
        b == ret.result.confidence.binary
    IN  /\ QGe(c, Q(8, 10)) => QGe(b, Q(95, 100))
        /\ QGe(c, Q(6, 10)) => QGe(b, Q(85, 100))
        /\ QGe(c, Q(4, 10)) => QGe(b, Q(75, 100))

(* ------------------------- concurrent requests ------------------------ *)

\* the detectors the request threads call directly
ThreadDetectors == {"ps", "dos", "r2l"}

\* the add_packet call of a detector made by the threads, with the clock value
\* now the call captured
AddPacket(detector, tracking, now) ==
  CASE detector = "ps" ->
         PortScanAdd(tracking, ScenarioSource, ScenarioDest, <<80>>, now)
    [] detector = "dos" ->
         DoSAdd(tracking, ScenarioSource, ScenarioDest, 60, FALSE, FALSE, now)
    [] detector = "r2l" ->
         R2LAdd(tracking, ScenarioSource, ScenarioDest, TRUE, FALSE, FALSE, now)

\* a lock that any thread gets at once, whoever holds it
CanAcquire_Always(holder) == TRUE

\* threading.Lock: acquired only when no thread holds it
CanAcquire(holder) == holder = 0

\* a thread enters add_packet: it reads the clock and computes the cutoff
\* (lines 67-68, 210-211, 326-327), then comes to "with self.lock:"
BeginAdd(t) ==
  /\ threads[t] = IdleThread
  /\ calls < MaxThreadAdds
  /\ \E detector \in ThreadDetectors :
       threads' = [threads EXCEPT ![t] = [at |-> "lock", op |-> "add_packet",
                                          detector |-> detector, now |-> clock]]
  /\ calls' = calls + 1
  /\ ret' = [op |-> "begin", thread |-> t]
  /\ UNCHANGED <<tracking_maps, USE_ML_MODELS, clock, dest_seen, lock>>

\* a thread enters get_features and comes to "with self.lock:" (line 100)
BeginGet(t) ==
  /\ threads[t] = IdleThread
  /\ \E detector \in ThreadDetectors :
       threads' = [threads EXCEPT ![t] = [at |-> "lock", op |-> "get_features",
                                          detector |-> detector]]
  /\ ret' = [op |-> "begin", thread |-> t]
  /\ UNCHANGED <<tracking_maps, USE_ML_MODELS, clock, calls, dest_seen, lock>>

\* self.lock.__enter__()
Acquire(t) ==
  /\ threads[t].at = "lock"
  /\ CanAcquire(lock[threads[t].detector])
  /\ lock' = [lock EXCEPT ![threads[t].detector] = t]
  /\ threads' = [threads EXCEPT ![t].at = "body"]
  /\ ret' = [op |-> "acquire", thread |-> t]
  /\ UNCHANGED <<tracking_maps, USE_ML_MODELS, clock, calls, dest_seen>>

\* the body of add_packet's with block: prune and record with the captured now
WriteBody(t) ==
  /\ threads[t].at = "body"
  /\ threads[t].op = "add_packet"
  /\ SetDetectors([Detectors EXCEPT ![threads[t].detector] =
                     AddPacket(threads[t].detector, @, threads[t].now)])
  /\ threads' = [threads EXCEPT ![t].at = "unlock"]
  /\ ret' = [op |-> "write", thread |-> t, detector |-> threads[t].detector]
  /\ UNCHANGED <<USE_ML_MODELS, clock, calls, dest_seen, lock>>

\* the body of get_features' with block: the clock is read inside it (line 105)
ReadBody(t) ==
  /\ threads[t].at = "body"
  /\ threads[t].op = "get_features"
  /\ \E r \in {GetFeatures(threads[t].detector, Detectors[threads[t].detector],
                           ScenarioSource, clock)} :
       /\ SetDetectors([Detectors EXCEPT ![threads[t].detector] = r.tracking])
       /\ ret' = [op |-> "read", thread |-> t, detector |-> threads[t].detector,
                  features |-> r.features]
  /\ threads' = [threads EXCEPT ![t].at = "unlock"]
  /\ UNCHANGED <<USE_ML_MODELS, clock, calls, dest_seen, lock>>

\* a with block left without releasing the lock
Release_KeepLock(t) ==
  /\ threads[t].at = "unlock"
  /\ threads' = [threads EXCEPT ![t] = IdleThread]
  /\ ret' = [op |-> "release", thread |-> t]
  /\ UNCHANGED <<tracking_maps, USE_ML_MODELS, clock, calls, dest_seen, lock>>

\* self.lock.__exit__(): the with block is left and the call returns
Release(t) ==
  /\ threads[t].at = "unlock"
  /\ lock' = [lock EXCEPT ![threads[t].detector] = 0]
  /\ threads' = [threads EXCEPT ![t] = IdleThread]
  /\ ret' = [op |-> "release", thread |-> t]
  /\ UNCHANGED <<tracking_maps, USE_ML_MODELS, clock, calls, dest_seen>>

\* two request threads calling the detectors while time passes
NextThreads ==
  \/ Tick
  \/ \E t \in Threads : BeginAdd(t)
  \/ \E t \in Threads : BeginGet(t)
  \/ \E t \in Threads : Acquire(t)
  \/ \E t \in Threads : WriteBody(t)
  \/ \E t \in Threads : ReadBody(t)
  \/ \E t \in Threads : Release(t)

SpecThreads == Init /\ [][NextThreads]_vars

\* the threads inside the with block of a detector
InLock(detector) ==
  {t \in Threads : threads[t].at \in {"body", "unlock"}
                   /\ threads[t].detector = detector}

\* C17: in every interleaving of concurrent add_packet and get_features calls
\* on one detector, at most one thread is inside the detector's critical
\* section, and every write to the detector's map is made by a thread that
\* holds the detector's lock.
C17_MutualExclusion ==
  /\ [](\A d \in DetectorNames : Cardinality(InLock(d)) <= 1)
  /\ [][\A d \in DetectorNames :
          Detectors[d]' # Detectors[d] =>
            \E t \in InLock(d) : threads'[t] # threads[t] /\ lock[d] = t]_vars

\* C17 happens: a thread is recording an event under the port-scan detector's
\* lock while the other thread waits at the same lock
C17_Witness ==
  \E t, u \in Threads :
    /\ threads[t].at = "unlock"
    /\ threads[t].op = "add_packet"
    /\ threads[t].detector = "ps"
    /\ lock["ps"] = t
    /\ ScenarioSource \in DOMAIN port_tracking
    /\ threads[u].at = "lock"
    /\ threads[u].detector = "ps"

\* the timestamps a detector holds for a source, in list order
Timestamps(detector, source_ip) ==
  CASE detector = "ps" -> port_tracking[source_ip].timestamps
    [] detector = "dos" ->
         [i \in 1..Len(dos_tracking[source_ip].packets) |->
            dos_tracking[source_ip].packets[i][1]]

\* C18: in every reachable state, including under concurrent add_packet calls
\* for the same source, each source's timestamp list in PortScanDetector and
\* DoSDetector is in non-decreasing time order, and the rate they report,
\* computed from the span between the first and the last live timestamp, is
\* never negative.
C18_TimestampsOrdered ==
  /\ \A detector \in {"ps", "dos"} :
       \A source_ip \in DOMAIN Detectors[detector] :
         LET ts == Timestamps(detector, source_ip)
         IN  \A i \in 1..(Len(ts) - 1) : ts[i] <= ts[i + 1]
  /\ (ret.op = "read" /\ ret.detector \in {"ps", "dos"})
       => QGe(ret.features.packets_per_second, Zero)

(* ---------------------- the clock within one call --------------------- *)

\* the ticks that pass between the datetime.now() of the add_packet calls
\* (lines 67, 210, 514) and the datetime.now() of the get_features calls
\* (lines 105, 247) made by one analyze_packet call
Lags == {0, 1}

\* comprehensive_detector.analyze_packet(packet), each detector call reading
\* the clock for itself
AnalyzePacketLagCall(budget) ==
  /\ calls < budget
  /\ \E packet \in Packets, lag \in Lags :
    \E r \in {AnalyzePacket(Detectors, packet, clock, clock + lag)} :
      /\ calls' = calls + 1
      /\ SetDetectors(r.det)
      /\ clock' = clock + lag
      /\ dest_seen' = Seen(dest_seen, packet, r.recorded, clock)
      /\ ret' = [op |-> "analyze_packet", packet |-> packet,
                 source_ip |-> Strip(packet.start_ip),
                 fresh |-> \A d \in DetectorNames :
                             Strip(packet.start_ip) \notin DOMAIN Detectors[d],
                 recorded |-> r.recorded, t_rec |-> clock, now |-> clock + lag,
                 result |-> r.result]
      /\ UNCHANGED <<USE_ML_MODELS, threads, lock>>

\* the aggregator called while the clock runs
NextClock ==
  \/ Tick
  \/ AnalyzePacketLagCall(MaxOps)

SpecClock == Init /\ [][NextClock]_vars

\* C19: within one analyze_packet call every pruning step and every liveness
\* filter, in the record and the query steps of all detectors, uses the same
\* captured value of now: the query steps read the clock value the record
\* steps read, and the packets DoSDetector's record step kept as unexpired are
\* the packets its query step counts as live.
C19_SingleNow ==
  (ret.op = "analyze_packet" /\ ret.recorded)
    => /\ ret.now = ret.t_rec
       /\ ret.result.dos_features.packet_count
            = Len(dos_tracking[ret.source_ip].packets)

(* ----------------------- the aggregator's selection ------------------- *)

\* scores and active flags a detector's get_features can return: what its
\* rules give for a few rates and counts, among them a score of exactly 0.3
\* with the flag set and with the flag clear, and a score above 0.3 with the
\* flag clear (70 ports at 1 packet per second)
Outputs(detector) ==
  CASE detector = "ps" ->
         { PortScanScore(c[1], QInt(c[2]), Zero) :
             c \in {<<0, 1>>, <<25, 25>>, <<50, 40>>, <<100, 50>>, <<70, 1>>} }
    [] detector = "dos" ->
         { DoSScore(QInt(c[1]), 1, 0, QInt(c[2])) :
             c \in {<<1, 1000>>, <<40, 60>>, <<150, 1000>>, <<600, 1000>>} }
    [] detector = "r2l" ->
         { R2LScore(c[1], c[2], c[3]) :
             c \in {<<0, 0, 0>>, <<6, 0, 0>>, <<0, 3, 0>>, <<20, 0, 0>>} }
    [] detector = "u2r" ->
         { U2RScore(c[1], c[2], c[3], c[4]) :
             c \in {<<0, 0, 0, 0>>, <<0, 0, 1, 0>>, <<0, 0, 0, 5>>} }
    [] detector = "bf" ->
         { BruteForceScore(c[1], c[2], c[3]) :
             c \in {<<0, 0, 0>>, <<12, 12, 0>>, <<31, 0, 0>>} }

\* the feature record of a detector that carries the score and the flag o
FeaturesWith(detector, o) ==
  CASE detector = "ps" ->
         [PortScanDefaultFeatures EXCEPT !.port_scan_score = o.score,
                                         !.is_port_scan = o.active]
    [] detector = "dos" ->
         [DoSDefaultFeatures EXCEPT !.dos_score = o.score, !.is_dos = o.active]
    [] detector = "r2l" ->
         [R2LDefaultFeatures EXCEPT !.r2l_score = o.score, !.is_r2l = o.active]
    [] detector = "u2r" ->
         [U2RDefaultFeatures EXCEPT !.u2r_score = o.score, !.is_u2r = o.active]
    [] detector = "bf" ->
         [BruteForceDefaultFeatures EXCEPT !.brute_force_score = o.score,
                                           !.is_brute_force = o.active]

\* lines 708-775 of analyze_packet applied to five feature records
VerdictCall ==
  \E ps \in Outputs("ps"), dos \in Outputs("dos"), r2l \in Outputs("r2l"),
     u2r \in Outputs("u2r"), bf \in Outputs("bf") :
    /\ ret' = [op |-> "verdict",
               result |-> Verdict(FeaturesWith("ps", ps), FeaturesWith("dos", dos),
                                  FeaturesWith("r2l", r2l), FeaturesWith("u2r", u2r),
                                  FeaturesWith("bf", bf))]
    /\ UNCHANGED <<tracking_maps, USE_ML_MODELS, threads, lock, clock, calls,
                   dest_seen>>

NextVerdict == VerdictCall

SpecVerdict == Init /\ [][NextVerdict]_vars

ArbitrateClassifiers ==
  ClassifierVerdicts \cup
  { [binary_pred |-> 1, multiclass_pred |-> 1, binary_proba |-> Q(99, 100),
     multiclass_proba |-> <<Q(1, 100), Q(99, 100), Zero, Zero, Zero, Zero>>] }

\* lines 609-951 of predict applied once to a verdict of analyze_packet (lines
\* 708-775 over five feature records) and to an output of the classifier
ArbitrateCall ==
  /\ calls = 0
  /\ \E ps \in Outputs("ps"), dos \in Outputs("dos"), r2l \in Outputs("r2l"),
        u2r \in Outputs("u2r"), bf \in Outputs("bf"),
        cv \in IF USE_ML_MODELS THEN ArbitrateClassifiers ELSE {NoClassifier} :
       \E d \in {Verdict(FeaturesWith("ps", ps), FeaturesWith("dos", dos),
                         FeaturesWith("r2l", r2l), FeaturesWith("u2r", u2r),
                         FeaturesWith("bf", bf))} :
         \E v \in {Arbitrate(USE_ML_MODELS, cv, <<d>>)} :
           /\ calls' = 1
           /\ ret' = [op |-> "arbitrate", cv |-> cv, detection |-> d,
                      result |-> PredictResult(USE_ML_MODELS, cv, v, <<d>>)]
           /\ UNCHANGED <<tracking_maps, USE_ML_MODELS, threads, lock, clock,
                          dest_seen>>

SpecArbitrate == InitPredict /\ [][ArbitrateCall]_vars

\* C22: with the ML models enabled, whenever the rule verdict is malicious
\* with a confidence below 0.4, the final binary confidence is the
\* classifier's confidence plus 0.2.
C22_LowestTier ==
  (/\ ret.op = "arbitrate"
   /\ USE_ML_MODELS
   /\ ret.detection.is_malicious
   /\ QLt(ret.detection.confidence, Q(4, 10))) =>
    ret.result.confidence.binary =
      QAdd(MLVerdict(ret.cv).binary_confidence, Q(2, 10))

\* C23: whenever the rule verdict is malicious with a named attack category
\* c, the returned distribution gives c a strictly greater probability than
\* every other category, for every probability vector of the classifier.
C23_WinnerDominant ==
  (/\ ret.op = "arbitrate"
   /\ ret.detection.is_malicious
   /\ ret.detection.attack_type \in NamedTypes \ {"normal"}) =>
    LET probs == ret.result.attack_type_probabilities
        c     == ret.detection.attack_type
    IN  /\ c \in DOMAIN probs
        /\ \A a \in DOMAIN probs \ {c} : QLt(probs[a], probs[c])

\* C24: whenever the rule verdict is malicious with a named attack category
\* c and rule confidence k, the returned probability of c is at least k.
C24_WinnerFloor ==
  (/\ ret.op = "arbitrate"
   /\ ret.detection.is_malicious
   /\ ret.detection.attack_type \in NamedTypes \ {"normal"}) =>
    LET probs == ret.result.attack_type_probabilities
        c     == ret.detection.attack_type
    IN  /\ c \in DOMAIN probs
        /\ QGe(probs[c], ret.detection.confidence)

\* C25: whenever the rule verdict's category is 'unknown_attack', the five
\* named attack categories receive the same probability in the returned
\* distribution, whatever the prior probabilities or scores.
C25_UnknownEven ==
  (ret.op = "arbitrate" /\ ret.detection.attack_type = "unknown_attack") =>
    LET probs == ret.result.attack_type_probabilities
        five  == NamedTypes \ {"normal"}
    IN  /\ five \subseteq DOMAIN probs
        /\ \A a, b \in five : probs[a] = probs[b]

(* ------------------------- rates and bonuses --------------------------- *)

\* C27: after a run of packets of a new source, the packets_per_second that
\* PortScanDetector and DoSDetector report is the number of live events
\* divided by max(time_span, 1 second), where time_span is the time from the
\* first to the last live event, also when it lies strictly between 0 and 1
\* second.
C27_RateComputation ==
  ret.op = "run" =>
    LET Rate(ts, window) ==
          LET live == Recent(ts, Cutoff(ts[Len(ts)], window))
          IN  QDiv(QInt(Len(live)),
                   QMax(Q(live[Len(live)] - live[1], TPS), One))
        ps  == port_tracking[ScenarioSource].timestamps
        dos == [i \in 1..Len(dos_tracking[ScenarioSource].packets) |->
                  dos_tracking[ScenarioSource].packets[i][1]]
    IN  /\ ps # <<>> =>
             ret.result.port_scan_features.packets_per_second =
               Rate(ps, PortScanWindow)
        /\ dos # <<>> =>
             ret.result.dos_features.packets_per_second = Rate(dos, DoSWindow)

\* C28: whenever DoSDetector reports a rate above 50 packets per second and
\* at most 3 distinct destinations, and the small-packet bonus does not apply
\* (mean size at least 100 bytes or rate at most 30), dos_score is
\* min(1, (rate/200) * (3/destinations)) and is_dos is true exactly when that
\* score exceeds 0.4, also when the rate is above 100 packets per second.
C28_TargetedFlood ==
  ret.op = "run" =>
    LET f    == ret.result.dos_features
        rate == f.packets_per_second
    IN  (/\ QGt(rate, QInt(50))
         /\ f.unique_dest_ips \in 1..3
         /\ ~(QLt(f.avg_packet_size, QInt(100)) /\ QGt(rate, QInt(30)))) =>
          LET score == QMin(One, QMul(QDiv(rate, QInt(200)),
                                      Q(3, f.unique_dest_ips)))
          IN  /\ f.dos_score = score
              /\ f.is_dos = QGt(score, Q(4, 10))

\* C29: after a run of packets of a new source, whenever more than half of
\* the adjacent pairs of the sorted live (port, timestamp) list differ by
\* exactly 1, port_scan_score is the score of the threshold rules plus 0.2
\* (capped at 1) and is_port_scan is true, for any number of live entries.
C29_SequentialBonus ==
  (ret.op = "run" /\ port_tracking[ScenarioSource].sequential_ports # <<>>) =>
    LET held  == port_tracking[ScenarioSource].sequential_ports
        live  == SelectSeq(held, LAMBDA e :
                   e[2] > Cutoff(held[Len(held)][2], PortScanWindow))
        ports == SortSeq([i \in 1..Len(live) |-> live[i][1]], LAMBDA a, b : a < b)
        pairs == 1..(Len(ports) - 1)
        steps == {i \in pairs : ports[i + 1] - ports[i] = 1}
        f     == ret.result.port_scan_features
    IN  2 * Cardinality(steps) > Cardinality(pairs) =>
          /\ f.port_scan_score =
               QMin(One, QAdd(PortScanScore(f.unique_ports, f.packets_per_second,
                                            Zero).score, Q(2, 10)))
          /\ f.is_port_scan

(* ------------------------- placeholder addresses ----------------------- *)

\* C30: an analyze_packet call for a packet whose source or destination
\* address is empty or '0.0.0.0' returns the default result (attack_type
\* 'normal', not malicious, confidence 0, every feature at its default) and
\* leaves the maps of all five detectors as they were.
C30_PlaceholderIgnored ==
  [][(/\ calls' = calls + 1
      /\ ret'.op = "analyze_packet"
      /\ \/ ret'.packet.start_ip \in {"", "0.0.0.0"}
         \/ ret'.packet.end_ip \in {"", "0.0.0.0"}) =>
       /\ ret'.result.attack_type = "normal"
       /\ ~ret'.result.is_malicious
       /\ ret'.result.confidence = Zero
       /\ ret'.result = DefaultDetectionResult
       /\ UNCHANGED tracking_maps]_vars

C30_Witness ==
  /\ ret.op = "analyze_packet"
  /\ ret.packet.start_ip = "10.0.0.1"
  /\ ret.packet.end_ip = ""
  /\ ret.result = DefaultDetectionResult
  /\ "10.0.0.1" \in DOMAIN dos_tracking
  /\ Len(dos_tracking["10.0.0.1"].packets) = 3
  /\ calls = 4

(* --------------------- properties implied by the code ------------------ *)

\* C38: whenever the verdict of analyze_packet is not malicious its
\* confidence is at most 0.3, so predict never takes the soft-escalation
\* branch on it: with the ML models enabled the confidences returned for a
\* non-malicious rule verdict are the classifier's own.
C38_NonMaliciousLowConfidence ==
  (ret.op = "arbitrate" /\ ~ret.detection.is_malicious) =>
    /\ QLe(ret.detection.confidence, Q(3, 10))
    /\ USE_ML_MODELS =>
         /\ ret.result.confidence.binary = MLVerdict(ret.cv).binary_confidence
         /\ ret.result.confidence.multiclass =
              MLVerdict(ret.cv).multiclass_confidence

C38_Witness ==
  /\ ret.op = "arbitrate"
  /\ USE_ML_MODELS
  /\ ~ret.detection.is_malicious
  /\ ret.detection.confidence = Q(3, 10)
  /\ ret.cv.binary_pred = 0
  /\ ret.result.binary_prediction = "benign"
  /\ ret.result.confidence.binary = Q(1, 100)

\* C39: in the verdict returned after a run of packets, every detector whose
\* active flag is set has a score strictly greater than 0; an
\* 'unknown_attack' verdict therefore takes its confidence from a positive
\* score of at most 0.3 and never the default of 0.5.
C39_ActiveImpliesPositive ==
  ret.op = "run" =>
    LET r == ret.result
        f == [ps |-> r.port_scan_features, dos |-> r.dos_features,
              r2l |-> r.r2l_features, u2r |-> r.u2r_features,
              bf |-> r.brute_force_features]
    IN  /\ \A d \in DetectorNames :
             FeatureActive(d, f[d]) => QGt(FeatureScore(d, f[d]), Zero)
        /\ r.attack_type = "unknown_attack" =>
             /\ \E c \in DOMAIN r.all_scores :
                  QGt(r.all_scores[c], Zero) /\ r.confidence = r.all_scores[c]
             /\ QLe(r.confidence, Q(3, 10))

C39_Witness ==
  /\ ret.op = "run"
  /\ ret.result.attack_type = "unknown_attack"
  /\ ret.result.port_scan_features.is_port_scan
  /\ ret.result.port_scan_features.port_scan_score = Q(2, 10)
  /\ ret.result.confidence = Q(2, 10)

\* C40: no add_packet, get_features or analyze_packet call and no passage of
\* time removes a source from a detector's tracking map: in every step the
\* sources each of the five maps tracked before are still tracked after.
C40_NeverEvicted ==
  [][\A d \in DetectorNames : DOMAIN Detectors[d] \subseteq DOMAIN Detectors'[d]]_vars

C40_Witness ==
  /\ ret.op = "get_features"
  /\ ret.detector = "ps"
  /\ ret.source_ip \in DOMAIN port_tracking
  /\ port_tracking[ret.source_ip].timestamps # <<>>
  /\ Recent(port_tracking[ret.source_ip].timestamps,
            Cutoff(clock, PortScanWindow)) = <<>>
  /\ ret.features = PortScanDefaultFeatures

\* C37: a call that records an event of source A leaves, in each of the five
\* detectors, the entry of every other tracked source B as it was, and the
\* features a query for B returns at the clock value of the call are the
\* same on the maps before and after the call.
C37_SourceIsolation ==
  [][calls' = calls + 1 =>
       \A d \in DetectorNames :
         \A B \in DOMAIN Detectors[d] \ {ret'.source_ip} :
           /\ B \in DOMAIN Detectors'[d]
           /\ Detectors'[d][B] = Detectors[d][B]
           /\ GetFeatures(d, Detectors'[d], B, clock').features =
                GetFeatures(d, Detectors[d], B, clock').features]_vars

C37_Witness ==
  /\ ret.op = "analyze_packet"
  /\ ret.source_ip = "10.0.0.2"
  /\ ret.recorded
  /\ "10.0.0.1" \in DOMAIN port_tracking
  /\ Len(port_tracking["10.0.0.1"].timestamps) = 2
  /\ Len(port_tracking["10.0.0.2"].timestamps) = 1
  /\ "10.0.0.1" \in DOMAIN dos_tracking
  /\ "10.0.0.1" \in DOMAIN brute_force_tracking

\* C33: every port held in a source's port set of the port-scan detector
\* ('ports') or of the brute-force detector ('target_ports') is an integer
\* from 1 to 65535, whatever port the description of the packet encoded.
C33_PortValidity ==
  /\ \A s \in DOMAIN port_tracking :
       \A p \in port_tracking[s].ports : p \in Int /\ p >= 1 /\ p <= 65535
  /\ \A s \in DOMAIN brute_force_tracking :
       \A p \in brute_force_tracking[s].target_ports :
         p \in Int /\ p >= 1 /\ p <= 65535

C33_Witness ==
  /\ ret.op = "analyze_packet"
  /\ ret.packet.description.arrow
  /\ ret.packet.description.port.v = 70000
  /\ ret.source_ip \in DOMAIN port_tracking
  /\ 65535 \in port_tracking[ret.source_ip].ports
  /\ 65535 \in brute_force_tracking[ret.source_ip].target_ports

\* C35: a predict request for one packet with valid addresses records the
\* packet exactly once: the number of live events of the packet's source in
\* the port-scan detector and in the DoS detector grows by exactly 1.
C35_ExactlyOnce ==
  [][(/\ calls' = calls + 1
      /\ ret'.op = "predict"
      /\ ret'.packet.start_ip \notin {"", "0.0.0.0"}
      /\ ret'.packet.end_ip \notin {"", "0.0.0.0"}) =>
       LET s == ret'.packet.start_ip
           PsLive(m)  == IF s \in DOMAIN m
                         THEN Len(Recent(m[s].timestamps,
                                         Cutoff(clock', PortScanWindow)))
                         ELSE 0
           DosLive(m) == IF s \in DOMAIN m
                         THEN Len(SelectSeq(m[s].packets, LAMBDA e :
                                    e[1] > Cutoff(clock', DoSWindow)))
                         ELSE 0
       IN  /\ PsLive(port_tracking') = PsLive(port_tracking) + 1
           /\ DosLive(dos_tracking') = DosLive(dos_tracking) + 1]_vars

(* ------------------ the steps inside add_packet's with block ----------- *)

\* the first statements of the with block (lines 71-78, 214-225, 330-341):
\* the thread reads the source's entry and builds the pruned lists from it
PruneBody(t) ==
  /\ threads[t].at = "body"
  /\ threads[t].op = "add_packet"
  /\ threads' = [threads EXCEPT ![t] =
                   [at |-> "append", op |-> "add_packet",
                    detector |-> threads[t].detector, now |-> threads[t].now,
                    seen |-> Detectors[threads[t].detector]]]
  /\ ret' = [op |-> "prune", thread |-> t, detector |-> threads[t].detector]
  /\ UNCHANGED <<tracking_maps, USE_ML_MODELS, clock, calls, dest_seen, lock>>

\* the rest of the with block (lines 80-94, 227-236, 343-352): the pruned
\* lists are bound to the entry and the event is appended
AppendBody(t) ==
  /\ threads[t].at = "append"
  /\ SetDetectors([Detectors EXCEPT ![threads[t].detector] =
                     AddPacket(threads[t].detector, threads[t].seen,
                               threads[t].now)])
  /\ threads' = [threads EXCEPT ![t] =
                   [at |-> "unlock", op |-> "add_packet",
                    detector |-> threads[t].detector, now |-> threads[t].now]]
  /\ ret' = [op |-> "write", thread |-> t, detector |-> threads[t].detector]
  /\ UNCHANGED <<USE_ML_MODELS, clock, calls, dest_seen, lock>>

\* two request threads recording events of one source at one instant
SpecAppend ==
  /\ Init
  /\ [][\E t \in Threads :
          \/ BeginAdd(t) \/ Acquire(t) \/ PruneBody(t)
          \/ AppendBody(t) \/ Release(t)]_vars

\* C36: when all the concurrent add_packet calls for one source have
\* returned and no event has expired, the lists of the detectors hold one
\* entry per call: the timestamps of the port-scan detector, the packets of
\* the DoS detector and the failed logins of the R2L detector add up to the
\* number of calls, and the DoS packet and byte lists have the same length.
C36_NoLostUpdates ==
  (\A t \in Threads : threads[t] = IdleThread) =>
    LET Held(m, field) == IF ScenarioSource \in DOMAIN m
                          THEN Len(m[ScenarioSource][field]) ELSE 0
    IN  /\ Held(port_tracking, "timestamps") + Held(dos_tracking, "packets")
             + Held(r2l_tracking, "failed_logins") = calls
        /\ Held(dos_tracking, "packets") = Held(dos_tracking, "bytes")

C36_Witness ==
  /\ \A t \in Threads : threads[t] = IdleThread
  /\ calls = MaxThreadAdds
  /\ ScenarioSource \in DOMAIN port_tracking
  /\ Len(port_tracking[ScenarioSource].timestamps) = MaxThreadAdds
  /\ ret.op = "release"

(* ------------------------- every call returns -------------------------- *)

\* the request threads at one instant under a fair scheduler: a thread that
\* can run the body of its with block or leave it eventually does, and a
\* thread waiting for a lock that is free again and again eventually gets it
SpecThreadsFair ==
  /\ Init
  /\ [][\E t \in Threads :
          \/ BeginAdd(t) \/ BeginGet(t) \/ Acquire(t)
          \/ WriteBody(t) \/ ReadBody(t) \/ Release(t)]_vars
  /\ \A t \in Threads :
       /\ SF_vars(Acquire(t))
       /\ WF_vars(WriteBody(t))
       /\ WF_vars(ReadBody(t))
       /\ WF_vars(Release(t))

AnalyzeFailing(det, source_ip, dest_ip, packet_size, dest_port, is_failed, now, failed) ==
  LET Added(d, map)  == IF failed = <<"record", d>> THEN det[d] ELSE map
      Asked(d, r, default) ==
        IF failed = <<"query", d>>
        THEN [tracking |-> Added(d, det[d]), features |-> default] ELSE r
      ps  == Added("ps", PortScanAdd(det.ps, source_ip, dest_ip, dest_port, now))
      dos == Added("dos", DoSAdd(det.dos, source_ip, dest_ip, packet_size, FALSE,
                                 FALSE, now))
      bf  == Added("bf", BruteForceAdd(det.bf, source_ip, dest_port,
                                       dest_port # <<>> /\ dest_port[1] # 0
                                         /\ dest_port[1] \in LoginPorts,
                                       is_failed, FALSE, now))
  IN  AnalyzeResult(
        Asked("ps", PortScanGetFeatures(ps, source_ip, now), PortScanDefaultFeatures),
        Asked("dos", DoSGetFeatures(dos, source_ip, now), DoSDefaultFeatures),
        Asked("r2l", R2LGetFeatures(det.r2l, source_ip, now), R2LDefaultFeatures),
        Asked("u2r", U2RGetFeatures(det.u2r, source_ip, now), U2RDefaultFeatures),
        Asked("bf", BruteForceGetFeatures(bf, source_ip, now),
              BruteForceDefaultFeatures))

\* analyze_packet for one more failed login of the source of the runs, with
\* one step of one detector raising: one of the three add_packet calls (lines
\* 651-674) or one of the five get_features calls (lines 677-706)
FailingCall ==
  /\ calls = 0
  /\ \E failed \in {<<"record", d>> : d \in {"ps", "dos", "bf"}}
                       \cup {<<"query", d>> : d \in DetectorNames},
        packet \in {Pkt(ScenarioSource, ScenarioDest, IntBytes(60),
                        Arrow(22, "failed"))} :
       \E r \in {AnalyzeFailing(Detectors, packet.start_ip, packet.end_ip,
                                CapSize(packet.start_bytes.v),
                                ParsePort(packet.description),
                                IsFailedText(packet.description.text), clock,
                                failed)} :
         /\ calls' = 1
         /\ SetDetectors(r.det)
         /\ clock' = clock
         /\ dest_seen' = Seen(dest_seen, packet, TRUE, clock)
         /\ ret' = [op |-> "failing", packet |-> packet, failed |-> failed,
                    result |-> r.result]
         /\ UNCHANGED <<USE_ML_MODELS, threads, lock>>

SpecFailing == Init /\ [][Tick \/ RunCall \/ FailingCall]_vars

\* C31: when the record or the query step of one detector fails during an
\* analyze_packet call, the other detectors are updated and report exactly as
\* in the call without the failure, and the failing detector contributes a
\* score of 0 with its active flag clear.
C31_FailureIsolation ==
  [][(calls' = calls + 1 /\ ret'.op = "failing") =>
       LET d     == ret'.failed[2]
           clean == AnalyzePacket(Detectors, ret'.packet, clock', clock')
           F(r)  == [ps |-> r.port_scan_features, dos |-> r.dos_features,
                     r2l |-> r.r2l_features, u2r |-> r.u2r_features,
                     bf |-> r.brute_force_features]
       IN  /\ \A e \in DetectorNames \ {d} :
                /\ Detectors'[e] = clean.det[e]
                /\ F(ret'.result)[e] = F(clean.result)[e]
           /\ FeatureScore(d, F(ret'.result)[d]) = Zero
           /\ ~FeatureActive(d, F(ret'.result)[d])]_vars

(* ------------------- the ranges of scores and confidences -------------- *)

\* lines 609-951 of predict applied to the verdict analyze_packet returned
\* for the last event of a run and to an output of the classifier
ArbitrateRun ==
  /\ calls = 0
  /\ ret.op = "run"
  /\ \E cv \in IF USE_ML_MODELS THEN ArbitrateClassifiers ELSE {NoClassifier} :
       \E v \in {Arbitrate(USE_ML_MODELS, cv, <<ret.result>>)} :
         /\ calls' = 1
         /\ ret' = [op |-> "arbitrate_run", cv |-> cv, detection |-> ret.result,
                    result |-> PredictResult(USE_ML_MODELS, cv, v, <<ret.result>>)]
         /\ UNCHANGED <<tracking_maps, USE_ML_MODELS, threads, lock, clock,
                        dest_seen>>

SpecRange == InitPredict /\ [][Tick \/ RunCall \/ ArbitrateRun]_vars

====
